---- MODULE Spec2Model ----
(***************************************************************************)
(* Model of icmp_monitor.py: the target registry, the SQLite store and its *)
(* three window views, the per-target probers, the statistics worker and   *)
(* the dashboard's latency classification; and of the interactive ports    *)
(* mode of docker.py (last part of the module).                            *)
(*                                                                         *)
(* Representation                                                          *)
(*   - Python None / SQL NULL / the text "-" is the empty set, a present   *)
(*     value v is {v}.                                                     *)
(*   - Time is in whole seconds.  A timestamp column holds the second at   *)
(*     which datetime.now() was read.                                      *)
(*   - A latency is an integer number of tenths of a millisecond: the      *)
(*     prober stores float(f"{x:.1f}").  Values the views round to two     *)
(*     decimals (avg, min, max: ms; success_rate: percent; variance: ms^2) *)
(*     and the published std_dev are integers in hundredths.  Decimal ties *)
(*     are rounded half up; the binary representation of a tie is not      *)
(*     modelled.                                                           *)
(*   - A piece of text taken from the echo utility's output is a record    *)
(*     [kind, v]: kind "int" is an integer numeral of value v, "dec" a     *)
(*     numeral with a fractional part of value v/100, "junk" a text that   *)
(*     is no numeral, "empty" no text at all.                              *)
(***************************************************************************)
EXTENDS Integers, Sequences, FiniteSets, TLC

VARIABLES
    config_file,     \* icmp_monitor.json
    ping_installed,  \* whether shutil.which("ping") finds the echo utility
    main_pc,         \* position of the main thread
    addresses,       \* module global `addresses`
    ping_targets,    \* table ping_targets
    ping_results,    \* table ping_results
    sqlite_sequence, \* AUTOINCREMENT counter of ping_results
    ping_stats,      \* table ping_stats
    db_lock,         \* threading.Lock: "free" or its holder
    now,             \* wall clock, seconds
    results,         \* dict `results`: target_id -> last outcome
    stats_data,      \* module global `stats_data`: target_id -> statistics
    pc,              \* position of each prober thread (one per address)
    local,           \* each prober's locals carried between steps
    stats_pc,        \* position of the statistics thread
    probes,          \* number of echo runs so far
    view_row,        \* the view's loop variables (target_id, result), or None
    latency_styles,  \* target_id -> latency_style of the row last rendered
    interrupted,     \* KeyboardInterrupt has been raised in the main thread
    docker_pc,       \* docker.py: where the utility waits for its user
    docker_ps,       \* docker.py: the running containers with published ports
    container_info,  \* docker.py: argument of container_menu, or None
    menu_entry_index, \* docker.py: what the last terminal_menu.show() returned
    caught,          \* docker.py: exception caught in the last step, or ""
    stopped,         \* docker.py: last result of stop_container_interactive
    stop_commands,   \* docker.py: containers `docker stop` was run for
    menu_exit        \* docker.py: how the last container_menu ended

\* the variables of the main thread's display loop
view_vars == <<view_row, latency_styles, interrupted>>

\* the variables of docker.py
docker_vars == <<docker_pc, docker_ps, container_info, menu_entry_index,
                 caught, stopped, stop_commands, menu_exit>>

vars == <<config_file, ping_installed, main_pc, addresses, ping_targets,
          ping_results, sqlite_sequence, ping_stats, db_lock, now, results,
          stats_data, pc, local, stats_pc, probes, view_row, latency_styles,
          interrupted, docker_vars>>

\* docker.py has not been started
DockerNotRunning ==
    /\ docker_pc = "idle"
    /\ docker_ps = {}
    /\ container_info = {}
    /\ menu_entry_index = {}
    /\ caught = ""
    /\ stopped = {}
    /\ stop_commands = {}
    /\ menu_exit = ""

----------------------------------------------------------------------------
(* Optional values *)

None == {}

Some(v) == {v}

Get(o) == CHOOSE v \in o : TRUE

Max2(a, b) == IF a >= b THEN a ELSE b

Abs(a) == IF a >= 0 THEN a ELSE 0 - a

\* n/d rounded to the nearest integer, halves away from zero (n >= 0, d > 0)
RoundDiv(n, d) == (2 * n + d) \div (2 * d)

----------------------------------------------------------------------------
(* Program constants *)

WINDOW_01MIN == 60

WINDOW_05MIN == 300

WINDOW_15MIN == 900

RETENTION == 604800

MIN_15MIN == 10

MIN_05MIN == 5

MIN_01MIN == 2

----------------------------------------------------------------------------
(* Text of the echo utility's output and Python's conversions of it *)

IntText(n) == [kind |-> "int", v |-> n]

DecText(h) == [kind |-> "dec", v |-> h]

JunkText == [kind |-> "junk", v |-> 0]

EmptyText == [kind |-> "empty", v |-> 0]

\* float(text), in hundredths; None stands for ValueError
python_float(text) ==
    CASE text.kind = "int" -> Some(100 * text.v)
      [] text.kind = "dec" -> Some(text.v)
      [] OTHER -> None

\* int(text); None stands for ValueError ("12.3" is no integer literal)
python_int(text) ==
    IF text.kind = "int" THEN Some(text.v) ELSE None

\* f"{x:.1f}" of a value in hundredths: the one-decimal text, as its tenths
format_1f(h) == (h + 5) \div 10

\* One line of stdout: `first` is line.split()[0]; bytes_from says whether
\* "bytes from" occurs; ttl / time are None when "ttl=" / "time=" does not
\* occur and else the text up to the next blank (EmptyText when the line
\* ends there).
Line(first, bytes_from, ttl, time) ==
    [first |-> first, bytes_from |-> bytes_from, ttl |-> ttl, time |-> time]

\* The body of the for loop of parse_ping_output on one line; acc.exc is
\* the exception that left the function, "" when none did.
parse_line(acc, line) ==
    LET time_stats ==
            IF line.time = None THEN acc.time_stats
            ELSE IF Get(line.time).kind = "empty" THEN None   \* IndexError, caught
            ELSE IF python_float(Get(line.time)) = None THEN None  \* ValueError, caught
            ELSE Some(format_1f(Get(python_float(Get(line.time)))))
        ttl_raises == line.ttl # None /\ Get(line.ttl).kind = "empty"
        ttl_value == IF line.ttl = None THEN acc.ttl_value ELSE line.ttl
        bytes_value == IF line.bytes_from THEN Some(line.first) ELSE acc.bytes_value
    IN  IF acc.exc # "" THEN acc
        ELSE IF ttl_raises
        THEN [acc EXCEPT !.exc = "IndexError", !.time_stats = time_stats]
        ELSE [exc |-> "", time_stats |-> time_stats,
              ttl_value |-> ttl_value, bytes_value |-> bytes_value]

RECURSIVE parse_lines(_, _)
parse_lines(acc, output) ==
    IF output = <<>> THEN acc
    ELSE parse_lines(parse_line(acc, Head(output)), Tail(output))

parse_ping_output(output) ==
    parse_lines([exc |-> "", time_stats |-> None,
                 ttl_value |-> None, bytes_value |-> None], output)

----------------------------------------------------------------------------
(* The store: tables and the three window views *)

TargetRow(target_id, ip_address, description, updated_at) ==
    [target_id |-> target_id, ip_address |-> ip_address,
     description |-> description, tests |-> "[\"icmp\"]",
     updated_at |-> updated_at]

ResultRow(id, target_id, timestamp, success, latency, ttl, bytes) ==
    [id |-> id, target_id |-> target_id, timestamp |-> timestamp,
     success |-> success, latency |-> latency, ttl |-> ttl, bytes |-> bytes]

\* Mutant: a plain INSERT that keeps the row already there
insert_target(table, row) == table \cup {row}

\* INSERT OR REPLACE INTO ping_targets: the row with the same primary key is
\* deleted before the new row is inserted.
upsert_target(table, row) ==
    {r \in table : r.target_id # row.target_id} \cup {row}

\* sync_targets_to_database: one upsert per entry of `addresses`, in order
RECURSIVE sync_targets_to_database(_, _, _)
sync_targets_to_database(table, addrs, at) ==
    IF addrs = <<>> THEN table
    ELSE sync_targets_to_database(
            upsert_target(table,
                TargetRow(Head(addrs).id, Head(addrs).addr, Head(addrs).desc, at)),
            Tail(addrs), at)

\* The LEFT JOIN condition of a view: the target's rows whose timestamp is
\* not before `at` minus the window.
window_rows(rows, target_id, window, at) ==
    {r \in rows : r.target_id = target_id /\ r.timestamp >= at - window}

\* CASE WHEN pr.success = 1 THEN pr.latency END: the non-NULL values an
\* aggregate sees
success_latency_rows(rows) == {r \in rows : r.success /\ r.latency # None}

RECURSIVE sum_latency(_)
sum_latency(rows) ==
    IF rows = {} THEN 0
    ELSE LET r == CHOOSE x \in rows : TRUE
         IN  Get(r.latency) + sum_latency(rows \ {r})

min_latency_of(rows) ==
    CHOOSE m \in {Get(r.latency) : r \in rows} :
        \A r \in rows : m <= Get(r.latency)

max_latency_of(rows) ==
    CHOOSE m \in {Get(r.latency) : r \in rows} :
        \A r \in rows : m >= Get(r.latency)

\* ROUND(AVG(latency), 2), hundredths of a millisecond
sql_avg_latency(rows) ==
    LET s == success_latency_rows(rows)
    IN  IF s = {} THEN None
        ELSE Some(RoundDiv(10 * sum_latency(s), Cardinality(s)))

sql_min_latency(rows) ==
    LET s == success_latency_rows(rows)
    IN  IF s = {} THEN None ELSE Some(10 * min_latency_of(s))

sql_max_latency(rows) ==
    LET s == success_latency_rows(rows)
    IN  IF s = {} THEN None ELSE Some(10 * max_latency_of(s))

\* ROUND(COUNT(success) * 100.0 / NULLIF(COUNT(id), 0), 2), hundredths of a percent
sql_success_rate(rows) ==
    IF rows = {} THEN None
    ELSE Some(RoundDiv(10000 * Cardinality({r \in rows : r.success}),
                       Cardinality(rows)))

\* sum over the rows of (m * latency - total)^2, where total is the sum of
\* the m latencies: m^2 times the sum of squared deviations from the mean
RECURSIVE sum_sq_dev(_, _, _)
sum_sq_dev(rows, m, total) ==
    IF rows = {} THEN 0
    ELSE LET r == CHOOSE x \in rows : TRUE
             d == m * Get(r.latency) - total
         IN  d * d + sum_sq_dev(rows \ {r}, m, total)

RECURSIVE sum_latency_sq(_)
sum_latency_sq(rows) ==
    IF rows = {} THEN 0
    ELSE LET r == CHOOSE x \in rows : TRUE
         IN  Get(r.latency) * Get(r.latency) + sum_latency_sq(rows \ {r})

\* Mutant: the one-pass formula ROUND(AVG(x * x), 2) - avg * avg on the
\* rounded average
sql_variance_one_pass(rows) ==
    LET s == success_latency_rows(rows)
        m == Cardinality(s)
        avg == RoundDiv(10 * sum_latency(s), m)
    IN  IF s = {} THEN None
        ELSE Some((100 * RoundDiv(sum_latency_sq(s), m) - avg * avg) \div 100)

\* The variance subquery of v_stats_01min: ROUND(AVG((latency - avg)^2), 2)
\* over the successful rows of the window, hundredths of ms^2
sql_variance(rows) ==
    LET s == success_latency_rows(rows)
        m == Cardinality(s)
    IN  IF s = {} THEN None
        ELSE Some(RoundDiv(sum_sq_dev(s, m, sum_latency(s)), m * m * m))

\* Mutant: success_results counts the successful rows that carry a latency
view_columns_latency_successes(rows) ==
    [avg_latency |-> sql_avg_latency(rows),
     min_latency |-> sql_min_latency(rows),
     max_latency |-> sql_max_latency(rows),
     success_rate |-> sql_success_rate(rows),
     total_results |-> Cardinality(rows),
     success_results |-> Cardinality(success_latency_rows(rows)),
     fail_results |-> Cardinality({r \in rows : ~r.success})]

\* The columns every view computes for one target
view_columns(rows) ==
    [avg_latency |-> sql_avg_latency(rows),
     min_latency |-> sql_min_latency(rows),
     max_latency |-> sql_max_latency(rows),
     success_rate |-> sql_success_rate(rows),
     total_results |-> Cardinality(rows),
     success_results |-> Cardinality({r \in rows : r.success}),
     fail_results |-> Cardinality({r \in rows : ~r.success})]

\* SELECT ... FROM v_stats_NNmin WHERE target_id = ? ; fetchone(): None when
\* ping_targets has no such target
v_stats(targets, rows, target_id, window, at) ==
    IF \A t \in targets : t.target_id # target_id THEN None
    ELSE Some(view_columns(window_rows(rows, target_id, window, at)))

v_stats_05min(targets, rows, target_id, at) ==
    v_stats(targets, rows, target_id, WINDOW_05MIN, at)

v_stats_15min(targets, rows, target_id, at) ==
    v_stats(targets, rows, target_id, WINDOW_15MIN, at)

v_stats_01min(targets, rows, target_id, at) ==
    IF \A t \in targets : t.target_id # target_id THEN None
    ELSE LET w == window_rows(rows, target_id, WINDOW_01MIN, at)
         IN  Some(view_columns(w) @@ [variance |-> sql_variance(w)])

\* Mutant: the row exactly 7 days old is deleted too
retention_sweep_inclusive(rows, at) ==
    {r \in rows : ~(r.timestamp <= at - RETENTION)}

\* DELETE FROM ping_results WHERE timestamp < now - 7 days
retention_sweep(rows, at) == {r \in rows : ~(r.timestamp < at - RETENTION)}

----------------------------------------------------------------------------
(* The statistics worker's computation for one target *)

\* floor of the square root of n, searched in lo..hi (lo^2 <= n < (hi+1)^2)
RECURSIVE isqrt_between(_, _, _)
isqrt_between(n, lo, hi) ==
    IF lo >= hi THEN lo
    ELSE LET mid == (lo + hi + 1) \div 2
         IN  IF mid * mid <= n THEN isqrt_between(n, mid, hi)
             ELSE isqrt_between(n, lo, mid - 1)

\* round(variance ** 0.5, 2): variance in hundredths of ms^2, result in
\* hundredths of ms, i.e. the integer nearest to sqrt(100 * variance)
std_dev_of(variance) ==
    LET n == 100 * variance
        k == isqrt_between(n, 0, 46340)
    IN  IF n - k * k > k THEN k + 1 ELSE k

Chosen(row, std_dev, window_used) ==
    [avg_latency |-> row.avg_latency, success_rate |-> row.success_rate,
     total_results |-> row.total_results, std_dev |-> std_dev,
     window_used |-> window_used]

Collecting ==
    [avg_latency |-> None, success_rate |-> Some(0), total_results |-> 0,
     std_dev |-> 0, window_used |-> "collecting"]

std_dev_1m(r1) ==
    IF r1 # None /\ Get(r1).variance # None /\ Get(Get(r1).variance) > 0
    THEN std_dev_of(Get(Get(r1).variance)) ELSE 0

\* Mutant: the 5 minute window is tried before the 15 minute window
select_window_5m_first(r1, r5, r15) ==
    IF r5 # None /\ Get(r5).total_results >= MIN_05MIN THEN Chosen(Get(r5), 0, "5min")
    ELSE IF r15 # None /\ Get(r15).total_results >= MIN_15MIN THEN Chosen(Get(r15), 0, "15min")
    ELSE IF r1 # None /\ Get(r1).total_results >= MIN_01MIN
    THEN Chosen(Get(r1), std_dev_1m(r1), "1min")
    ELSE Collecting

\* Mutant: the 15 minute branch also takes the 1 minute standard deviation
select_window_std_dev_15m(r1, r5, r15) ==
    IF r15 # None /\ Get(r15).total_results >= MIN_15MIN
    THEN Chosen(Get(r15), std_dev_1m(r1), "15min")
    ELSE IF r5 # None /\ Get(r5).total_results >= MIN_05MIN THEN Chosen(Get(r5), 0, "5min")
    ELSE IF r1 # None /\ Get(r1).total_results >= MIN_01MIN
    THEN Chosen(Get(r1), std_dev_1m(r1), "1min")
    ELSE Collecting

\* Mutant: while collecting, the 15 minute window's numbers are reported
select_window_collecting_total(r1, r5, r15) ==
    IF r15 # None /\ Get(r15).total_results >= MIN_15MIN THEN Chosen(Get(r15), 0, "15min")
    ELSE IF r5 # None /\ Get(r5).total_results >= MIN_05MIN THEN Chosen(Get(r5), 0, "5min")
    ELSE IF r1 # None /\ Get(r1).total_results >= MIN_01MIN
    THEN Chosen(Get(r1), std_dev_1m(r1), "1min")
    ELSE IF r15 # None THEN Chosen(Get(r15), 0, "collecting")
    ELSE Collecting

\* Mutant: the windows are tried from the finest to the coarsest
select_window_finest_first(r1, r5, r15) ==
    IF r1 # None /\ Get(r1).total_results >= MIN_01MIN
    THEN Chosen(Get(r1), std_dev_1m(r1), "1min")
    ELSE IF r5 # None /\ Get(r5).total_results >= MIN_05MIN THEN Chosen(Get(r5), 0, "5min")
    ELSE IF r15 # None /\ Get(r15).total_results >= MIN_15MIN THEN Chosen(Get(r15), 0, "15min")
    ELSE Collecting

\* Lines 510-535: the window choice.  r1, r5, r15 are the fetchone() results.
select_window(r1, r5, r15) ==
    IF r15 # None /\ Get(r15).total_results >= MIN_15MIN THEN Chosen(Get(r15), 0, "15min")
    ELSE IF r5 # None /\ Get(r5).total_results >= MIN_05MIN THEN Chosen(Get(r5), 0, "5min")
    ELSE IF r1 # None /\ Get(r1).total_results >= MIN_01MIN
    THEN Chosen(Get(r1), std_dev_1m(r1), "1min")
    ELSE Collecting

\* Lines 537-547: the entry of new_stats.  `x if x else d` takes d for None
\* and for zero.
stats_entry(chosen) ==
    [avg_latency |-> IF chosen.avg_latency # None /\ Get(chosen.avg_latency) # 0
                     THEN chosen.avg_latency ELSE None,
     success_rate |-> IF chosen.success_rate # None /\ Get(chosen.success_rate) # 0
                      THEN Get(chosen.success_rate) ELSE 0,
     total_results |-> chosen.total_results,
     std_dev |-> chosen.std_dev,
     window_used |-> chosen.window_used]

target_stats(targets, rows, target_id, at) ==
    stats_entry(select_window(v_stats_01min(targets, rows, target_id, at),
                              v_stats_05min(targets, rows, target_id, at),
                              v_stats_15min(targets, rows, target_id, at)))

\* target_ids = [addr["id"] for addr in addresses], as the keys of new_stats
target_ids(addrs) == {addrs[i].id : i \in 1..Len(addrs)}

\* Mutant: the pass reads the table as it was before the current instant
compute_new_stats_stale(targets, rows, addrs, at) ==
    [t \in target_ids(addrs) |->
        target_stats(targets, {r \in rows : r.timestamp < at}, t, at)]

compute_new_stats(targets, rows, addrs, at) ==
    [t \in target_ids(addrs) |-> target_stats(targets, rows, t, at)]

\* Lines 553-567: INSERT OR REPLACE INTO ping_stats, one row per key
persist_stats(table, new_stats, at) ==
    {r \in table : r.target_id \notin DOMAIN new_stats}
    \cup {[target_id |-> t, avg_latency |-> new_stats[t].avg_latency,
           success_rate |-> new_stats[t].success_rate,
           total_results |-> new_stats[t].total_results,
           last_updated |-> at] : t \in DOMAIN new_stats}

----------------------------------------------------------------------------
(* Bounds and inputs of the model *)

\* the second at which the process starts
StartTime == 700000

\* echo runs per execution of the process
MaxProbes == 2

\* The instants, in seconds after the start, at which the clock is observed
ClockOffsets == {0, WINDOW_01MIN + 1}

IPv4Literals == {"1.1.1.1", "8.8.8.8"}

\* is_ipv4: the dotted-quad pattern, on the addresses of the model
is_ipv4(addr) == addr \in IPv4Literals

Address(id, addr, desc) == [id |-> id, addr |-> addr, desc |-> desc]

\* Contents of icmp_monitor.json
ConfigFile(state, content) == [state |-> state, content |-> content]

OneTarget == <<Address(1, "1.1.1.1", "Cloudflare")>>

TwoTargets == <<Address(1, "1.1.1.1", "Cloudflare"),
                Address(2, "example.org", "Web")>>

\* stdout of a run of the echo utility
ReplyLine(ttl, time) == Line(IntText(64), TRUE, ttl, time)

PingOutputs ==
    {<<ReplyLine(Some(IntText(57)), Some(DecText(1904)))>>,
     <<ReplyLine(Some(IntText(57)), Some(DecText(2104)))>>,
     <<ReplyLine(Some(IntText(57)), None)>>,
     <<ReplyLine(Some(EmptyText), Some(DecText(1904)))>>,
     <<ReplyLine(Some(JunkText), Some(DecText(1904)))>>,
     <<ReplyLine(Some(IntText(64)), Some(DecText(4)))>>}

\* subprocess.run results: returncode and stdout
PingRuns ==
    {[returncode |-> 0, stdout |-> o] : o \in PingOutputs}
    \cup {[returncode |-> 1, stdout |-> <<>>]}

\* socket.gethostbyname results: None stands for socket.gaierror
DnsAnswers == {None, Some("93.184.216.34")}

OkRow(id, target_id, timestamp, latency) ==
    ResultRow(id, target_id, timestamp, TRUE, Some(latency), Some(57), Some(64))

FailRow(id, target_id, timestamp) ==
    ResultRow(id, target_id, timestamp, FALSE, None, None, None)

\* Contents of icmp_monitor.sqlite3 left by earlier executions
DbFile(targets, rows, seq) ==
    [ping_targets |-> targets, ping_results |-> rows, sqlite_sequence |-> seq,
     ping_stats |-> {[target_id |-> t.target_id, avg_latency |-> None,
                      success_rate |-> 0, total_results |-> 0,
                      last_updated |-> t.updated_at] : t \in targets}]

OldTargets == {TargetRow(1, "1.0.0.1", "old", StartTime - WINDOW_15MIN)}

\* Results of an earlier execution: one past the retention age and one
\* exactly at it, four on the edge of the 15 minute window, two that are two
\* minutes old and three on the edge of the 1 minute window
OldResults ==
    {OkRow(1, 1, StartTime - RETENTION - 1, 200),
     OkRow(2, 1, StartTime - RETENTION, 200)}
    \cup {OkRow(i, 1, StartTime - WINDOW_15MIN, 200) : i \in 3..5}
    \cup {FailRow(6, 1, StartTime - WINDOW_15MIN),
          OkRow(7, 1, StartTime - 2 * WINDOW_01MIN, 200),
          ResultRow(8, 1, StartTime - 2 * WINDOW_01MIN, TRUE, None, Some(57), Some(64)),
          OkRow(9, 1, StartTime - WINDOW_01MIN, 190),
          OkRow(10, 1, StartTime - WINDOW_01MIN, 191),
          OkRow(11, 1, StartTime - WINDOW_01MIN, 191)}

FreshDb == DbFile({}, {}, 0)

OldDb == DbFile(OldTargets, OldResults, 11)

\* The files an execution of the process starts from
Executions ==
    {[config_file |-> ConfigFile("ok", TwoTargets), db |-> FreshDb],
     [config_file |-> ConfigFile("ok", OneTarget), db |-> OldDb],
     [config_file |-> ConfigFile("malformed", <<>>), db |-> OldDb]}

----------------------------------------------------------------------------
(* State *)

EmptyDict == [k \in {} |-> 0]

\* d[k] = v on a Python dict
DictSet(d, k, v) == [x \in DOMAIN d \cup {k} |-> IF x = k THEN v ELSE d[x]]

\* A value of the `results` dict.  Of the timestamp text only the prefix
\* ("", "fail:", "dns_fail:", or "-" for the text "-") is kept; the clock
\* digits that follow it are not modelled.
Outcome(pong, bytes, ttl, time, prefix, address_obj, resolved_ip) ==
    [pong |-> pong, bytes |-> bytes, ttl |-> ttl, time |-> time,
     timestamp |-> prefix,
     address_obj |-> address_obj, resolved_ip |-> resolved_ip]

\* Lines 960-971: the initial `results`; later entries of the same id win
RECURSIVE initial_results(_, _)
initial_results(d, addrs) ==
    IF addrs = <<>> THEN d
    ELSE initial_results(
            DictSet(d, Head(addrs).id,
                    Outcome("Waiting", None, None, None, "-", Head(addrs), None)),
            Tail(addrs))

Holder(kind, i) == [kind |-> kind, i |-> i]

\* Locals of ping_address: resolved_ip, result.returncode of the run in
\* progress, the arguments of the pending save_ping_result and the outcome
\* to publish after it
NoLocal ==
    [resolved_ip |-> None, returncode |-> None, save |-> None,
     publish |-> None]

Init ==
    /\ \E e \in Executions :
          /\ config_file = e.config_file
          /\ ping_targets = e.db.ping_targets
          /\ ping_results = e.db.ping_results
          /\ sqlite_sequence = e.db.sqlite_sequence
          /\ ping_stats = e.db.ping_stats
    /\ ping_installed \in BOOLEAN
    /\ main_pc = "load"
    /\ addresses = <<>>
    /\ db_lock = None
    /\ now = StartTime
    /\ results = EmptyDict
    /\ stats_data = EmptyDict
    /\ pc = <<>>
    /\ local = <<>>
    /\ stats_pc = "idle"
    /\ probes = 0
    /\ view_row = None
    /\ latency_styles = EmptyDict
    /\ interrupted = FALSE
    /\ DockerNotRunning

----------------------------------------------------------------------------
(* The main thread *)

\* Mutant: malformed JSON is treated like a missing file and start-up goes on
\* with a default list
load_addresses_goes_on ==
    /\ main_pc = "load"
    /\ addresses' = IF config_file.state = "ok" THEN config_file.content
                    ELSE OneTarget
    /\ main_pc' = "init_database"
    /\ UNCHANGED <<docker_vars, view_vars, config_file, ping_installed, ping_targets, ping_results,
                   sqlite_sequence, ping_stats, db_lock, now, results,
                   stats_data, pc, local, stats_pc, probes>>

\* load_addresses, run at import
load_addresses ==
    /\ main_pc = "load"
    /\ IF config_file.state = "ok"
       THEN /\ addresses' = config_file.content
            /\ main_pc' = "init_database"
       ELSE /\ addresses' = addresses        \* json.JSONDecodeError: sys.exit(1)
            /\ main_pc' = "exit_1"
    /\ UNCHANGED <<docker_vars, view_vars, config_file, ping_installed, ping_targets, ping_results,
                   sqlite_sequence, ping_stats, db_lock, now, results,
                   stats_data, pc, local, stats_pc, probes>>

\* init_database: tables and views are created, the targets are synchronised
init_database ==
    /\ main_pc = "init_database"
    /\ ping_targets' = sync_targets_to_database(ping_targets, addresses, now)
    /\ main_pc' = "start"
    /\ UNCHANGED <<docker_vars, view_vars, config_file, ping_installed, addresses, ping_results,
                   sqlite_sequence, ping_stats, db_lock, now, results,
                   stats_data, pc, local, stats_pc, probes>>

\* main, lines 959-997: `results` is filled and the threads are started
start_threads ==
    /\ main_pc = "start"
    /\ results' = initial_results(EmptyDict, addresses)
    /\ pc' = [i \in 1..Len(addresses) |-> "start"]
    /\ local' = [i \in 1..Len(addresses) |-> NoLocal]
    /\ stats_pc' = "wait"
    /\ main_pc' = "live"
    /\ UNCHANGED <<docker_vars, view_vars, config_file, ping_installed, addresses, ping_targets,
                   ping_results, sqlite_sequence, ping_stats, db_lock, now,
                   stats_data, probes>>

\* The wall clock moves on to a later instant while the threads run
tick ==
    /\ main_pc = "live"
    /\ \E o \in ClockOffsets : StartTime + o > now /\ now' = StartTime + o
    /\ UNCHANGED <<docker_vars, view_vars, config_file, ping_installed, main_pc, addresses,
                   ping_targets, ping_results, sqlite_sequence, ping_stats,
                   db_lock, results, stats_data, pc, local, stats_pc, probes>>

----------------------------------------------------------------------------
(* A prober thread: ping_address(addresses[i], results) *)

\* Mutant: after a failed resolution the prober enters its loop (no return)
ping_address_resolve_no_return(i) ==
    /\ main_pc = "live"
    /\ pc[i] = "start"
    /\ IF is_ipv4(addresses[i].addr)
       THEN /\ pc' = [pc EXCEPT ![i] = "ping"]
            /\ UNCHANGED <<results, local>>
       ELSE \E answer \in DnsAnswers :
              IF answer = None
              THEN /\ results' = DictSet(results, addresses[i].id,
                            Outcome("DNS Error", None, None, None, "dns_fail:",
                                    addresses[i], None))
                   /\ pc' = [pc EXCEPT ![i] = "ping"]
                   /\ UNCHANGED local
              ELSE /\ local' = [local EXCEPT ![i].resolved_ip = answer]
                   /\ pc' = [pc EXCEPT ![i] = "ping"]
                   /\ UNCHANGED results
    /\ UNCHANGED <<docker_vars, view_vars, config_file, ping_installed, main_pc, addresses,
                   ping_targets, ping_results, sqlite_sequence, ping_stats,
                   db_lock, now, stats_data, stats_pc, probes>>

\* Lines 366-383: name resolution before the loop
ping_address_resolve(i) ==
    /\ main_pc = "live"
    /\ pc[i] = "start"
    /\ IF is_ipv4(addresses[i].addr)
       THEN /\ pc' = [pc EXCEPT ![i] = "ping"]
            /\ UNCHANGED <<results, local>>
       ELSE \E answer \in DnsAnswers :
              IF answer = None
              THEN /\ results' = DictSet(results, addresses[i].id,
                            Outcome("DNS Error", None, None, None, "dns_fail:",
                                    addresses[i], None))
                   /\ pc' = [pc EXCEPT ![i] = "done"]
                   /\ UNCHANGED local
              ELSE /\ local' = [local EXCEPT ![i].resolved_ip = answer]
                   /\ pc' = [pc EXCEPT ![i] = "ping"]
                   /\ UNCHANGED results
    /\ UNCHANGED <<docker_vars, view_vars, config_file, ping_installed, main_pc, addresses,
                   ping_targets, ping_results, sqlite_sequence, ping_stats,
                   db_lock, now, stats_data, stats_pc, probes>>

SaveArgs(success, latency, ttl, bytes) ==
    [success |-> success, latency |-> latency, ttl |-> ttl, bytes |-> bytes]

\* Mutant: a field that cannot be converted is saved as absent and the
\* other fields are kept
save_args_of_keeps_valid(parsed) ==
    SaveArgs(TRUE, parsed.time_stats,
             IF parsed.ttl_value = None THEN None
             ELSE python_int(Get(parsed.ttl_value)),
             IF parsed.bytes_value = None THEN None
             ELSE python_int(Get(parsed.bytes_value)))

\* Lines 393-399: the arguments of save_ping_result after a zero exit.  Any
\* ValueError of the three conversions selects save_ping_result(target_id, True).
save_args_of(parsed) ==
    LET ttl_int == IF parsed.ttl_value = None THEN None
                   ELSE python_int(Get(parsed.ttl_value))
        bytes_int == IF parsed.bytes_value = None THEN None
                     ELSE python_int(Get(parsed.bytes_value))
        raises == \/ parsed.ttl_value # None /\ ttl_int = None
                  \/ parsed.bytes_value # None /\ bytes_int = None
    IN  IF raises THEN SaveArgs(TRUE, None, None, None)
        ELSE SaveArgs(TRUE, parsed.time_stats, ttl_int, bytes_int)

\* Mutant: a failed probe is saved with zeroes instead of absent values
probe_result_zeroes(i, run, resolved_ip) ==
    IF run.returncode = 0
    THEN LET parsed == parse_ping_output(run.stdout)
         IN  [exc |-> parsed.exc,
              save |-> save_args_of(parsed),
              publish |-> Outcome("Yes", parsed.bytes_value, parsed.ttl_value,
                                  parsed.time_stats, "", addresses[i],
                                  resolved_ip)]
    ELSE [exc |-> "",
          save |-> SaveArgs(FALSE, Some(0), Some(0), Some(0)),
          publish |-> Outcome("Error", None, None, None, "fail:",
                              addresses[i], resolved_ip)]

\* Mutant: a run with a non-zero exit code is saved as a success
probe_result_always_success(i, run, resolved_ip) ==
    IF run.returncode = 0
    THEN LET parsed == parse_ping_output(run.stdout)
         IN  [exc |-> parsed.exc,
              save |-> save_args_of(parsed),
              publish |-> Outcome("Yes", parsed.bytes_value, parsed.ttl_value,
                                  parsed.time_stats, "", addresses[i],
                                  resolved_ip)]
    ELSE [exc |-> "",
          save |-> SaveArgs(TRUE, None, None, None),
          publish |-> Outcome("Error", None, None, None, "fail:",
                              addresses[i], resolved_ip)]

\* Mutant: a run with a non-zero exit code puts the outcome back to Waiting
probe_result_back_to_waiting(i, run, resolved_ip) ==
    IF run.returncode = 0
    THEN LET parsed == parse_ping_output(run.stdout)
         IN  [exc |-> parsed.exc,
              save |-> save_args_of(parsed),
              publish |-> Outcome("Yes", parsed.bytes_value, parsed.ttl_value,
                                  parsed.time_stats, "", addresses[i],
                                  resolved_ip)]
    ELSE [exc |-> "",
          save |-> SaveArgs(FALSE, None, None, None),
          publish |-> Outcome("Waiting", None, None, None, "-",
                              addresses[i], resolved_ip)]

\* Lines 387-422 up to the call of save_ping_result: what one echo run makes
\* the prober save and publish
probe_result(i, run, resolved_ip) ==
    IF run.returncode = 0
    THEN LET parsed == parse_ping_output(run.stdout)
         IN  [exc |-> parsed.exc,
              save |-> save_args_of(parsed),
              publish |-> Outcome("Yes", parsed.bytes_value, parsed.ttl_value,
                                  parsed.time_stats, "", addresses[i],
                                  resolved_ip)]
    ELSE [exc |-> "",
          save |-> SaveArgs(FALSE, None, None, None),
          publish |-> Outcome("Error", None, None, None, "fail:",
                              addresses[i], resolved_ip)]

\* Mutant: the missing utility is published as a failed probe
ping_address_no_ping_publishes(i) ==
    /\ main_pc = "live"
    /\ pc[i] = "ping"
    /\ ~ping_installed
    /\ pc' = [pc EXCEPT ![i] = "done"]
    /\ results' = DictSet(results, addresses[i].id,
                          Outcome("Error", None, None, None, "fail:",
                                  addresses[i], local[i].resolved_ip))
    /\ UNCHANGED <<docker_vars, view_vars, config_file, ping_installed, main_pc, addresses,
                   ping_targets, ping_results, sqlite_sequence, ping_stats,
                   db_lock, now, stats_data, local, stats_pc, probes>>

\* run_ping_command fails: FileNotFoundError ends the loop (lines 424-427)
ping_address_no_ping(i) ==
    /\ main_pc = "live"
    /\ pc[i] = "ping"
    /\ ~ping_installed
    /\ pc' = [pc EXCEPT ![i] = "done"]
    /\ UNCHANGED <<docker_vars, view_vars, config_file, ping_installed, main_pc, addresses,
                   ping_targets, ping_results, sqlite_sequence, ping_stats,
                   db_lock, now, results, stats_data, local, stats_pc, probes>>

\* One echo run and the parsing of its output
ping_address_probe(i) ==
    /\ main_pc = "live"
    /\ pc[i] = "ping"
    /\ ping_installed
    /\ probes < MaxProbes
    /\ probes' = probes + 1
    /\ \E run \in PingRuns :
          LET r == probe_result(i, run, local[i].resolved_ip)
          IN  IF r.exc # ""
              THEN /\ pc' = [pc EXCEPT ![i] = "dead"]   \* uncaught exception
                   /\ UNCHANGED local
              ELSE /\ pc' = [pc EXCEPT ![i] = "save"]
                   /\ local' = [local EXCEPT ![i].returncode = Some(run.returncode),
                                             ![i].save = Some(r.save),
                                             ![i].publish = Some(r.publish)]
    /\ UNCHANGED <<docker_vars, view_vars, config_file, ping_installed, main_pc, addresses,
                   ping_targets, ping_results, sqlite_sequence, ping_stats,
                   db_lock, now, results, stats_data, stats_pc>>

\* Mutant: the write is entered without waiting for db_lock
save_ping_result_acquire_no_wait(i) ==
    /\ main_pc = "live"
    /\ pc[i] = "save"
    /\ db_lock' = Some(Holder("prober", i))
    /\ pc' = [pc EXCEPT ![i] = "insert"]
    /\ UNCHANGED <<docker_vars, view_vars, config_file, ping_installed, main_pc, addresses,
                   ping_targets, ping_results, sqlite_sequence, ping_stats,
                   now, results, stats_data, local, stats_pc, probes>>

\* save_ping_result: `with db_lock`
save_ping_result_acquire(i) ==
    /\ main_pc = "live"
    /\ pc[i] = "save"
    /\ db_lock = None
    /\ db_lock' = Some(Holder("prober", i))
    /\ pc' = [pc EXCEPT ![i] = "insert"]
    /\ UNCHANGED <<docker_vars, view_vars, config_file, ping_installed, main_pc, addresses,
                   ping_targets, ping_results, sqlite_sequence, ping_stats,
                   now, results, stats_data, local, stats_pc, probes>>

\* Mutant: the row is stamped with a clock that runs backwards
insert_result_clock_reversed(rows, id, target_id, at, args) ==
    rows \cup {ResultRow(id, target_id,
                         2 * StartTime + WINDOW_01MIN + 1 - at, args.success,
                         args.latency, args.ttl, args.bytes)}

\* Mutant: the new row takes the place of the target's earlier rows
insert_result_overwrites(rows, id, target_id, at, args) ==
    {r \in rows : r.target_id # target_id}
    \cup {ResultRow(id, target_id, at, args.success, args.latency,
                    args.ttl, args.bytes)}

\* INSERT INTO ping_results with timestamp datetime.now()
insert_result(rows, id, target_id, at, args) ==
    rows \cup {ResultRow(id, target_id, at, args.success, args.latency,
                         args.ttl, args.bytes)}

\* save_ping_result: the insert is committed and the lock released
save_ping_result_commit(i) ==
    /\ main_pc = "live"
    /\ pc[i] = "insert"
    /\ ping_results' = insert_result(ping_results, sqlite_sequence + 1,
                                     addresses[i].id, now, Get(local[i].save))
    /\ sqlite_sequence' = sqlite_sequence + 1
    /\ db_lock' = None
    /\ pc' = [pc EXCEPT ![i] = "publish"]
    /\ UNCHANGED <<docker_vars, view_vars, config_file, ping_installed, main_pc, addresses,
                   ping_targets, ping_stats, now, results, stats_data, local,
                   stats_pc, probes>>

\* Mutant: the exception of the write leaves save_ping_result and ends the
\* prober
save_ping_result_error_propagates(i) ==
    /\ main_pc = "live"
    /\ pc[i] = "insert"
    /\ db_lock' = None
    /\ pc' = [pc EXCEPT ![i] = "dead"]
    /\ UNCHANGED <<docker_vars, view_vars, config_file, ping_installed, main_pc, addresses,
                   ping_targets, ping_results, sqlite_sequence, ping_stats,
                   now, results, stats_data, local, stats_pc, probes>>

\* save_ping_result: connect, execute or commit raises; the exception is
\* printed and swallowed (lines 322-323), the lock released
save_ping_result_error(i) ==
    /\ main_pc = "live"
    /\ pc[i] = "insert"
    /\ db_lock' = None
    /\ pc' = [pc EXCEPT ![i] = "publish"]
    /\ UNCHANGED <<docker_vars, view_vars, config_file, ping_installed, main_pc, addresses,
                   ping_targets, ping_results, sqlite_sequence, ping_stats,
                   now, results, stats_data, local, stats_pc, probes>>

\* Mutant: the outcome is stored under a key of its own instead of the
\* target's id
ping_address_publish_new_key(i) ==
    /\ main_pc = "live"
    /\ pc[i] = "publish"
    /\ results' = DictSet(results, addresses[i].id + Len(addresses),
                          Get(local[i].publish))
    /\ local' = [local EXCEPT ![i].returncode = None, ![i].save = None,
                              ![i].publish = None]
    /\ pc' = [pc EXCEPT ![i] = "ping"]
    /\ UNCHANGED <<docker_vars, view_vars, config_file, ping_installed, main_pc, addresses,
                   ping_targets, ping_results, sqlite_sequence, ping_stats,
                   db_lock, now, stats_data, stats_pc, probes>>

\* Lines 401-423: results[target_id] = {...}, then the sleep
ping_address_publish(i) ==
    /\ main_pc = "live"
    /\ pc[i] = "publish"
    /\ results' = DictSet(results, addresses[i].id, Get(local[i].publish))
    /\ local' = [local EXCEPT ![i].returncode = None, ![i].save = None,
                              ![i].publish = None]
    /\ pc' = [pc EXCEPT ![i] = "ping"]
    /\ UNCHANGED <<docker_vars, view_vars, config_file, ping_installed, main_pc, addresses,
                   ping_targets, ping_results, sqlite_sequence, ping_stats,
                   db_lock, now, stats_data, stats_pc, probes>>

----------------------------------------------------------------------------
(* The statistics thread: calculate_statistics *)

calculate_statistics_acquire ==
    /\ main_pc = "live"
    /\ stats_pc = "wait"
    /\ db_lock = None
    /\ db_lock' = Some(Holder("stats", 0))
    /\ stats_pc' = "pass"
    /\ UNCHANGED <<docker_vars, view_vars, config_file, ping_installed, main_pc, addresses,
                   ping_targets, ping_results, sqlite_sequence, ping_stats,
                   now, results, stats_data, pc, local, probes>>

\* Mutant: the pass writes the first target's entry into the published map
\* and leaves the other entries as they were
pass_new_stats_in_place ==
    [t \in DOMAIN stats_data \cup {addresses[1].id} |->
        IF t = addresses[1].id
        THEN target_stats(ping_targets, retention_sweep(ping_results, now), t, now)
        ELSE stats_data[t]]

\* new_stats of a pass: computed on the swept table inside the transaction
pass_new_stats ==
    compute_new_stats(ping_targets, retention_sweep(ping_results, now),
                      addresses, now)

\* A pass that reaches conn.commit() (lines 461-571)
calculate_statistics_commit ==
    /\ stats_pc = "pass"
    /\ ping_results' = retention_sweep(ping_results, now)
    /\ stats_data' = pass_new_stats
    /\ ping_stats' = persist_stats(ping_stats, pass_new_stats, now)
    /\ db_lock' = None
    /\ stats_pc' = "wait"
    /\ UNCHANGED <<docker_vars, view_vars, config_file, ping_installed, main_pc, addresses,
                   ping_targets, sqlite_sequence, now, results, pc, local,
                   probes>>

\* Mutant: a pass that raises goes to its sleep with db_lock still held
calculate_statistics_fail_early_keeps_lock ==
    /\ stats_pc = "pass"
    /\ stats_pc' = "wait"
    /\ UNCHANGED <<docker_vars, view_vars, config_file, ping_installed, main_pc, addresses,
                   ping_targets, ping_results, sqlite_sequence, ping_stats,
                   db_lock, now, results, stats_data, pc, local, probes>>

\* Mutant: a pass that raises ends the statistics thread (break instead of
\* the sleep of line 576)
calculate_statistics_fail_early_ends_thread ==
    /\ stats_pc = "pass"
    /\ db_lock' = None
    /\ stats_pc' = "ended"
    /\ UNCHANGED <<docker_vars, view_vars, config_file, ping_installed, main_pc, addresses,
                   ping_targets, ping_results, sqlite_sequence, ping_stats,
                   now, results, stats_data, pc, local, probes>>

\* A pass that raises before line 550: the transaction is rolled back and
\* stats_data keeps its value (lines 574-576)
calculate_statistics_fail_early ==
    /\ stats_pc = "pass"
    /\ db_lock' = None
    /\ stats_pc' = "wait"
    /\ UNCHANGED <<docker_vars, view_vars, config_file, ping_installed, main_pc, addresses,
                   ping_targets, ping_results, sqlite_sequence, ping_stats,
                   now, results, stats_data, pc, local, probes>>

\* Mutant: a pass that raises after line 550 keeps its retention deletion
calculate_statistics_fail_late_no_rollback ==
    /\ stats_pc = "pass"
    /\ ping_results' = retention_sweep(ping_results, now)
    /\ stats_data' = pass_new_stats
    /\ db_lock' = None
    /\ stats_pc' = "wait"
    /\ UNCHANGED <<docker_vars, view_vars, config_file, ping_installed, main_pc, addresses,
                   ping_targets, sqlite_sequence, ping_stats, now, results, pc,
                   local, probes>>

\* A pass that raises after line 550 (in the ping_stats writes or the
\* commit): the transaction is rolled back, stats_data is already replaced
calculate_statistics_fail_late ==
    /\ stats_pc = "pass"
    /\ stats_data' = pass_new_stats
    /\ db_lock' = None
    /\ stats_pc' = "wait"
    /\ UNCHANGED <<docker_vars, view_vars, config_file, ping_installed, main_pc, addresses,
                   ping_targets, ping_results, sqlite_sequence, ping_stats,
                   now, results, pc, local, probes>>

----------------------------------------------------------------------------
(* The view: create_ping_results_table, one row of the table at a time *)

\* abs((x - avg) / std_dev) <= num / den, for a latency x in tenths and avg,
\* std_dev > 0 in hundredths
z_score_within(x, avg, std_dev, num, den) ==
    den * Abs(10 * x - avg) <= num * std_dev

\* Mutant: the first comparison is strict
classify_z_score_strict(x, avg, std_dev) ==
    IF ~z_score_within(x, avg, std_dev, 1, 1)
       \/ Abs(10 * x - avg) = std_dev THEN
        IF z_score_within(x, avg, std_dev, 3, 2) THEN "yellow"
        ELSE IF z_score_within(x, avg, std_dev, 2, 1) THEN "red"
        ELSE "red bold"
    ELSE "green"

\* Lines 745-755
classify_z_score(x, avg, std_dev) ==
    IF z_score_within(x, avg, std_dev, 1, 1) THEN "green"
    ELSE IF z_score_within(x, avg, std_dev, 3, 2) THEN "yellow"
    ELSE IF z_score_within(x, avg, std_dev, 2, 1) THEN "red"
    ELSE "red bold"

\* Mutant: the test of the collecting window (line 762) is left out
latency_style_no_collecting(target_id, result, stats) ==
    IF target_id \notin DOMAIN stats THEN "dim"
    ELSE LET s == stats[target_id]
         IN  IF /\ result.time # None
                /\ result.pong = "Yes"
                /\ s.avg_latency # None
                /\ s.std_dev > 0
             THEN classify_z_score(Get(result.time), Get(s.avg_latency), s.std_dev)
             ELSE IF result.pong = "Error" THEN "red bold"
             ELSE "dim"

\* Mutant: the z-score is classified without the test std_dev > 0 (line 737)
latency_style_any_std_dev(target_id, result, stats) ==
    IF target_id \notin DOMAIN stats THEN "dim"
    ELSE LET s == stats[target_id]
         IN  IF /\ result.time # None
                /\ result.pong = "Yes"
                /\ s.avg_latency # None
             THEN classify_z_score(Get(result.time), Get(s.avg_latency), s.std_dev)
             ELSE IF result.pong = "Error" THEN "red bold"
             ELSE IF s.window_used = "collecting" THEN "yellow dim"
             ELSE "dim"

\* Lines 716-763: latency_style of the row of target_id, from the row's
\* `result` and the global stats_data
latency_style(target_id, result, stats) ==
    IF target_id \notin DOMAIN stats THEN "dim"
    ELSE LET s == stats[target_id]
         IN  IF /\ result.time # None
                /\ result.pong = "Yes"
                /\ s.avg_latency # None
                /\ s.std_dev > 0
             THEN classify_z_score(Get(result.time), Get(s.avg_latency), s.std_dev)
             ELSE IF result.pong = "Error" THEN "red bold"
             ELSE IF s.window_used = "collecting" THEN "yellow dim"
             ELSE "dim"

\* Line 679: the loop takes the next (target_id, result) of `results`
view_next_row(t) ==
    /\ main_pc = "live"
    /\ ~interrupted
    /\ view_row = None
    /\ t \in DOMAIN results
    /\ view_row' = Some([target_id |-> t, result |-> results[t]])
    /\ UNCHANGED <<docker_vars, config_file, ping_installed, main_pc, addresses,
                   ping_targets, ping_results, sqlite_sequence, ping_stats,
                   db_lock, now, results, stats_data, pc, local, stats_pc,
                   probes, latency_styles, interrupted>>

\* Lines 716-770: stats_data is read and the row's latency is styled
view_style_row ==
    /\ main_pc = "live"
    /\ ~interrupted
    /\ view_row # None
    /\ latency_styles' =
          DictSet(latency_styles, Get(view_row).target_id,
                  latency_style(Get(view_row).target_id, Get(view_row).result,
                                stats_data))
    /\ view_row' = None
    /\ UNCHANGED <<docker_vars, config_file, ping_installed, main_pc, addresses,
                   ping_targets, ping_results, sqlite_sequence, ping_stats,
                   db_lock, now, results, stats_data, pc, local, stats_pc,
                   probes, interrupted>>

\* main, lines 1000-1007: KeyboardInterrupt is raised in the main thread
\* and caught there; the rendering loop is left
keyboard_interrupt ==
    /\ main_pc = "live"
    /\ ~interrupted
    /\ interrupted' = TRUE
    /\ view_row' = None
    /\ UNCHANGED <<docker_vars, config_file, ping_installed, main_pc, addresses,
                   ping_targets, ping_results, sqlite_sequence, ping_stats,
                   db_lock, now, results, stats_data, pc, local, stats_pc,
                   probes, latency_styles>>

\* main returns and the interpreter exits; the daemon threads (lines 979-997)
\* end with it, wherever they are
process_exit ==
    /\ main_pc = "live"
    /\ interrupted
    /\ main_pc' = "exit_0"
    /\ UNCHANGED <<docker_vars, view_vars, config_file, ping_installed, addresses,
                   ping_targets, ping_results, sqlite_sequence, ping_stats,
                   db_lock, now, results, stats_data, pc, local, stats_pc,
                   probes>>

----------------------------------------------------------------------------

Probers == 1..Len(addresses)

Next ==
    \/ load_addresses
    \/ init_database
    \/ start_threads
    \/ tick
    \/ \E i \in Probers : ping_address_resolve(i)
    \/ \E i \in Probers : ping_address_no_ping(i)
    \/ \E i \in Probers : ping_address_probe(i)
    \/ \E i \in Probers : save_ping_result_acquire(i)
    \/ \E i \in Probers : save_ping_result_commit(i)
    \/ \E i \in Probers : save_ping_result_error(i)
    \/ \E i \in Probers : ping_address_publish(i)
    \/ calculate_statistics_acquire
    \/ calculate_statistics_commit
    \/ calculate_statistics_fail_early
    \/ calculate_statistics_fail_late

Spec == Init /\ [][Next]_vars

----------------------------------------------------------------------------
(* An execution whose configuration file lists the same id twice: the file *)
(* is well-formed JSON, and load_addresses returns what json.load returns. *)

DupTargets == <<Address(1, "1.1.1.1", "Cloudflare"),
                Address(1, "8.8.8.8", "Google")>>

InitDup ==
    /\ config_file = ConfigFile("ok", DupTargets)
    /\ ping_targets = FreshDb.ping_targets
    /\ ping_results = FreshDb.ping_results
    /\ sqlite_sequence = FreshDb.sqlite_sequence
    /\ ping_stats = FreshDb.ping_stats
    /\ ping_installed \in BOOLEAN
    /\ main_pc = "load"
    /\ addresses = <<>>
    /\ db_lock = None
    /\ now = StartTime
    /\ results = EmptyDict
    /\ stats_data = EmptyDict
    /\ pc = <<>>
    /\ local = <<>>
    /\ stats_pc = "idle"
    /\ probes = 0
    /\ view_row = None
    /\ latency_styles = EmptyDict
    /\ interrupted = FALSE
    /\ DockerNotRunning

SpecDup == InitDup /\ [][Next]_vars

----------------------------------------------------------------------------
(* One target from the moment its threads are started: the prober, the     *)
(* statistics thread and the main thread's display loop run side by side,  *)
(* until the process is interrupted and exits.                             *)

InitRun ==
    /\ config_file = ConfigFile("ok", OneTarget)
    /\ ping_installed = TRUE
    /\ main_pc = "live"
    /\ addresses = OneTarget
    /\ ping_targets = sync_targets_to_database({}, OneTarget, StartTime)
    /\ ping_results = {}
    /\ sqlite_sequence = 0
    /\ ping_stats = {}
    /\ db_lock = None
    /\ now = StartTime
    /\ results = initial_results(EmptyDict, OneTarget)
    /\ stats_data = EmptyDict
    /\ pc = <<"start">>
    /\ local = <<NoLocal>>
    /\ stats_pc = "wait"
    /\ probes = 0
    /\ view_row = None
    /\ latency_styles = EmptyDict
    /\ interrupted = FALSE
    /\ DockerNotRunning

NextRun ==
    \/ tick
    \/ \E i \in Probers : ping_address_resolve(i)
    \/ \E i \in Probers : ping_address_probe(i)
    \/ \E i \in Probers : save_ping_result_acquire(i)
    \/ \E i \in Probers : save_ping_result_commit(i)
    \/ \E i \in Probers : ping_address_publish(i)
    \/ calculate_statistics_acquire
    \/ calculate_statistics_commit
    \/ \E t \in DOMAIN results : view_next_row(t)
    \/ view_style_row
    \/ keyboard_interrupt
    \/ process_exit

SpecRun == InitRun /\ [][NextRun]_vars

----------------------------------------------------------------------------
(* Steady probing of one target from an empty store: every iteration of    *)
(* the prober succeeds and is recorded, iterations are PING_UPDATE_INTERVAL *)
(* (1.5 s) apart, and statistics passes run in between.  An iteration and   *)
(* a pass are each taken as one step.                                      *)

\* iterations of the prober in the steady run
MaxSteadyProbes == 12

\* the clock after n iterations, in whole seconds
steady_clock(n) == StartTime + (3 * n) \div 2

\* the threads have been started and the prober is at the head of its loop
InitSteady ==
    /\ config_file = ConfigFile("ok", OneTarget)
    /\ ping_installed = TRUE
    /\ main_pc = "live"
    /\ addresses = OneTarget
    /\ ping_targets = sync_targets_to_database({}, OneTarget, StartTime)
    /\ ping_results = {}
    /\ sqlite_sequence = 0
    /\ ping_stats = {}
    /\ db_lock = None
    /\ now = StartTime
    /\ results = initial_results(EmptyDict, OneTarget)
    /\ stats_data = EmptyDict
    /\ pc = <<"ping">>
    /\ local = <<NoLocal>>
    /\ stats_pc = "wait"
    /\ probes = 0
    /\ view_row = None
    /\ latency_styles = EmptyDict
    /\ interrupted = FALSE
    /\ DockerNotRunning

\* ping_address, lines 385-423: one whole iteration with exit code 0, the
\* save committed, the outcome published and the sleep over
steady_probe ==
    /\ main_pc = "live"
    /\ pc[1] = "ping"
    /\ stats_pc = "wait"
    /\ probes < MaxSteadyProbes
    /\ \E run \in {r \in PingRuns : r.returncode = 0 /\ r.stdout \in
                        {<<ReplyLine(Some(IntText(57)), Some(DecText(1904)))>>,
                         <<ReplyLine(Some(IntText(57)), Some(DecText(2104)))>>}} :
          LET r == probe_result(1, run, local[1].resolved_ip)
          IN  /\ ping_results' = insert_result(ping_results, sqlite_sequence + 1,
                                               addresses[1].id, now, r.save)
              /\ results' = DictSet(results, addresses[1].id, r.publish)
    /\ sqlite_sequence' = sqlite_sequence + 1
    /\ probes' = probes + 1
    /\ now' = steady_clock(probes + 1)
    /\ UNCHANGED <<docker_vars, view_vars, config_file, ping_installed, main_pc, addresses,
                   ping_targets, ping_stats, db_lock, stats_data, pc, local,
                   stats_pc>>

\* calculate_statistics, lines 461-569: one whole pass that commits
steady_pass ==
    /\ main_pc = "live"
    /\ stats_pc = "wait"
    /\ db_lock = None
    /\ ping_results' = retention_sweep(ping_results, now)
    /\ stats_data' = pass_new_stats
    /\ ping_stats' = persist_stats(ping_stats, pass_new_stats, now)
    /\ UNCHANGED <<docker_vars, view_vars, config_file, ping_installed, main_pc, addresses,
                   ping_targets, sqlite_sequence, db_lock, now, results, pc,
                   local, stats_pc, probes>>

NextSteady == steady_probe \/ steady_pass

SpecSteady == InitSteady /\ [][NextSteady]_vars

----------------------------------------------------------------------------
(* The view on its own: the classification applied to drawn inputs.  The   *)
(* store holds the results of one target, a pass has published their       *)
(* statistics (or none has run yet), and the prober has published a last   *)
(* outcome that may be newer than the statistics.                          *)

\* latencies of the last outcome, tenths of a millisecond
ViewLatencies == {179, 180, 185, 188, 190, 200, 210, 212, 215, 220, 221, 2000}

ViewOutcomes ==
    {Outcome("Yes", Some(IntText(64)), Some(IntText(57)), Some(x), "",
             OneTarget[1], None) : x \in ViewLatencies}
    \cup {Outcome("Yes", Some(IntText(64)), Some(IntText(57)), None, "",
                  OneTarget[1], None),
          Outcome("Error", None, None, None, "fail:", OneTarget[1], None),
          Outcome("Waiting", None, None, None, "-", OneTarget[1], None)}

\* 60 successful probes at about 20 ms, one every 1.5 s (PING_UPDATE_INTERVAL)
\* up to the start time: latencies 19.5 to 20.5 ms
SteadyHistory ==
    {OkRow(i, 1, StartTime - (3 * (60 - i)) \div 2, 195 + (i % 11)) : i \in 1..60}

\* contents of ping_results when the pass ran
ViewResults ==
    {{},
     SteadyHistory,
     {OkRow(1, 1, StartTime, 200)},
     {OkRow(1, 1, StartTime, 190), OkRow(2, 1, StartTime, 210)},
     {OkRow(1, 1, StartTime, 200), OkRow(2, 1, StartTime, 200)},
     {OkRow(1, 1, StartTime, 190), OkRow(2, 1, StartTime, 210),
      FailRow(3, 1, StartTime)},
     {OkRow(i, 1, StartTime, 190 + 5 * i) : i \in 1..5},
     {OkRow(i, 1, StartTime, 190 + 2 * i) : i \in 1..10}}

\* last outcomes of the second target, a host name
ViewOutcomesOfName ==
    {Outcome("Waiting", None, None, None, "-", TwoTargets[2], None),
     Outcome("DNS Error", None, None, None, "dns_fail:", TwoTargets[2], None),
     Outcome("Yes", Some(IntText(64)), Some(IntText(57)), Some(200), "",
             TwoTargets[2], Some("93.184.216.34")),
     Outcome("Error", None, None, None, "fail:", TwoTargets[2],
             Some("93.184.216.34"))}

InitView ==
    /\ config_file = ConfigFile("ok", TwoTargets)
    /\ ping_installed = TRUE
    /\ main_pc = "live"
    /\ addresses = TwoTargets
    /\ ping_targets = sync_targets_to_database({}, TwoTargets, StartTime)
    /\ ping_results \in ViewResults
    /\ sqlite_sequence = Cardinality(ping_results)
    /\ now = StartTime
    /\ \E passed \in BOOLEAN :
          IF passed
          THEN /\ stats_data = compute_new_stats(ping_targets, ping_results,
                                                 addresses, now)
               /\ ping_stats = persist_stats({}, stats_data, now)
          ELSE /\ stats_data = EmptyDict
               /\ ping_stats = {}
    /\ db_lock = None
    /\ \E o1 \in ViewOutcomes, o2 \in ViewOutcomesOfName :
          /\ results = DictSet(DictSet(EmptyDict, 1, o1), 2, o2)
          /\ pc = <<"ping", IF o2.pong = "DNS Error" THEN "done" ELSE "ping">>
          /\ local = <<NoLocal, [NoLocal EXCEPT !.resolved_ip = o2.resolved_ip]>>
    /\ stats_pc = "wait"
    /\ probes = 0
    /\ view_row = None
    /\ latency_styles = EmptyDict
    /\ interrupted = FALSE
    /\ DockerNotRunning

NextView ==
    \/ \E t \in DOMAIN results : view_next_row(t)
    \/ view_style_row

SpecView == InitView /\ [][NextView]_vars

----------------------------------------------------------------------------
(* Properties *)

\* number of the target's results in the window that ends now
total_in(target_id, window) ==
    Cardinality({r \in ping_results :
                    r.target_id = target_id /\ r.timestamp >= now - window})

rule_window(total_15m, total_5m, total_1m) ==
    IF total_15m >= 10 THEN "15min"
    ELSE IF total_5m >= 5 THEN "5min"
    ELSE IF total_1m >= 2 THEN "1min"
    ELSE "collecting"

\* a step of the statistics thread that replaces stats_data
pass_publishes == calculate_statistics_commit \/ calculate_statistics_fail_late

\* C1: every statistics pass chooses each target's window from the three
\* totals alone, in strict order: 15min when total(15m) >= 10, else 5min when
\* total(5m) >= 5, else 1min when total(1m) >= 2, else collecting.
C1_WindowRule ==
    [][pass_publishes =>
         \A t \in DOMAIN stats_data' :
             stats_data'[t].window_used =
                 rule_window(total_in(t, WINDOW_15MIN), total_in(t, WINDOW_05MIN),
                             total_in(t, WINDOW_01MIN))]_vars

\* C1 witness: a pass chose the 5 minute window for a target whose 15 minute
\* window holds at least five results
C1_Witness ==
    \E t \in DOMAIN stats_data :
        /\ stats_data[t].window_used = "5min"
        /\ total_in(t, WINDOW_15MIN) >= 5
        /\ \E s \in ping_stats : s.target_id = t /\ s.last_updated = now

\* C2: every persisted result with success = false has latency, ttl and
\* bytes absent.
C2_FailedRowsCarryNothing ==
    \A r \in ping_results :
        ~r.success => r.latency = None /\ r.ttl = None /\ r.bytes = None

\* C2 witness: a failed probe of this execution is in the table
C2_Witness ==
    \E r \in ping_results : ~r.success /\ r.timestamp >= StartTime

known_targets == {t.target_id : t \in ping_targets}

\* the three views' rows for a target, at the present instant
views_of(target_id) ==
    {Get(v_stats_01min(ping_targets, ping_results, target_id, now)),
     Get(v_stats_05min(ping_targets, ping_results, target_id, now)),
     Get(v_stats_15min(ping_targets, ping_results, target_id, now))}

\* C3: for every target and window the view returns
\* total = successes + failures.
C3_TotalIsSuccessesPlusFailures ==
    \A t \in known_targets : \A v \in views_of(t) :
        v.total_results = v.success_results + v.fail_results

\* C3 witness: a window holds a failure, a success with a latency and a
\* success without one
C3_Witness ==
    \E t \in known_targets : \E v \in views_of(t) :
        /\ v.fail_results > 0
        /\ v.avg_latency # None
        /\ \E r \in ping_results :
              r.target_id = t /\ r.success /\ r.latency = None
              /\ r.timestamp >= now - WINDOW_01MIN

\* C4 (as claimed): in a window with total > 0, min, avg and max latency are
\* present and ordered when a success is in the window, and absent when
\* none is.
C4_LatencyBoundsAsClaimed ==
    \A t \in known_targets : \A v \in views_of(t) :
        v.total_results > 0 =>
            IF v.success_results >= 1
            THEN /\ v.min_latency # None /\ v.avg_latency # None
                 /\ v.max_latency # None
                 /\ Get(v.min_latency) <= Get(v.avg_latency)
                 /\ Get(v.avg_latency) <= Get(v.max_latency)
            ELSE /\ v.min_latency = None /\ v.avg_latency = None
                 /\ v.max_latency = None

\* C5: a pass that commits leaves exactly the results that are not older
\* than 7 days: none older remains, none younger is removed.
C5_SweepRemovesExactlyExpired ==
    [][calculate_statistics_commit =>
         /\ \A r \in ping_results' : r.timestamp >= now - 604800
         /\ \A r \in ping_results : r.timestamp >= now - 604800 => r \in ping_results']_vars

\* C5 witness: a pass committed at the present instant, the result past the
\* retention age is gone and the one exactly 7 days old is still there
C5_Witness ==
    /\ \E s \in ping_stats : s.last_updated = now
    /\ sqlite_sequence >= 2
    /\ \A r \in ping_results : r.id # 1
    /\ \E r \in ping_results : r.id = 2 /\ r.timestamp = now - RETENTION

\* the last entry of `addresses` with the id
last_entry(target_id) ==
    addresses[CHOOSE i \in 1..Len(addresses) :
                /\ addresses[i].id = target_id
                /\ \A j \in 1..Len(addresses) : addresses[j].id = target_id => j <= i]

\* C6: after the targets are synchronised each configured target_id has
\* exactly one row, carrying the last upsert's address and description; and
\* upserting a target again, unchanged or changed, still leaves one row,
\* that of the last upsert.
C6_UpsertLeavesOneRow ==
    main_pc \in {"start", "live"} =>
        \A t \in target_ids(addresses) :
            LET e == last_entry(t)
                same == TargetRow(t, e.addr, e.desc, now)
                changed == TargetRow(t, "8.8.8.8", "renamed", now)
                once == upsert_target(ping_targets, same)
            IN  /\ Cardinality({r \in ping_targets : r.target_id = t}) = 1
                /\ \A r \in ping_targets : r.target_id = t =>
                       r.ip_address = e.addr /\ r.description = e.desc
                /\ {r \in once : r.target_id = t} = {same}
                /\ upsert_target(once, same) = once
                /\ {r \in upsert_target(once, changed) : r.target_id = t} = {changed}
                /\ \A r \in ping_targets : r.target_id # t =>
                       r \in upsert_target(once, changed)

\* C6 witness: the store of an earlier execution held target 1 under
\* another address and description, and the row now carries the configured ones
C6_Witness ==
    /\ main_pc = "live"
    /\ \E r \in ping_results : r.target_id = 1 /\ r.timestamp < StartTime
    /\ \E r \in ping_targets :
          r.target_id = 1 /\ r.ip_address = "1.1.1.1" /\ r.description = "Cloudflare"

\* C7: the 1 minute variance of every target is absent or >= 0, and every
\* published std_dev is >= 0.
C7_VarianceAndStdDevNonNegative ==
    /\ \A t \in known_targets :
          LET v == Get(v_stats_01min(ping_targets, ping_results, t, now)).variance
          IN  v = None \/ Get(v) >= 0
    /\ \A t \in DOMAIN stats_data : stats_data[t].std_dev >= 0

\* C7 witness: a positive 1 minute variance and a positive published std_dev
C7_Witness ==
    \E t \in DOMAIN stats_data :
        /\ stats_data[t].std_dev > 0
        /\ LET v == Get(v_stats_01min(ping_targets, ping_results, t, now)).variance
           IN  v # None /\ Get(v) > 0

\* C8: a published std_dev is non-zero only under the 1 minute window.
C8_StdDevOnlyFor1Min ==
    \A t \in DOMAIN stats_data :
        stats_data[t].window_used \in {"15min", "5min", "collecting"} =>
            stats_data[t].std_dev = 0

\* C8 witness: a 15 minute snapshot published while the 1 minute window has
\* a positive variance
C8_Witness ==
    \E t \in DOMAIN stats_data :
        /\ stats_data[t].window_used = "15min"
        /\ \E s \in ping_stats : s.target_id = t /\ s.last_updated = now
        /\ LET v == Get(v_stats_01min(ping_targets, ping_results, t, now)).variance
           IN  v # None /\ Get(v) > 0

\* C9: a snapshot with window collecting has avg_latency absent and
\* success_rate, total and std_dev zero.
C9_CollectingIsEmpty ==
    \A t \in DOMAIN stats_data :
        stats_data[t].window_used = "collecting" =>
            /\ stats_data[t].avg_latency = None
            /\ stats_data[t].success_rate = 0
            /\ stats_data[t].total_results = 0
            /\ stats_data[t].std_dev = 0

\* C9 witness: a pass committed a collecting snapshot at an instant at which
\* the target's 15 minute window held one result recorded earlier
C9_Witness ==
    \E t \in DOMAIN stats_data :
        /\ stats_data[t].window_used = "collecting"
        /\ \E s \in ping_stats : s.target_id = t /\ s.last_updated = now
        /\ total_in(t, WINDOW_15MIN) = 1
        /\ \A r \in ping_results : r.target_id = t => r.timestamp < now

\* C10: for a last outcome that succeeded with latency x and a snapshot with
\* mean mu and std_dev sigma > 0, the label is normal (green) when
\* |x - mu| <= sigma, variable (yellow) when sigma < |x - mu| <= 1.5 sigma,
\* anomalous (red) when 1.5 sigma < |x - mu| <= 2 sigma and critical
\* (red bold) when |x - mu| > 2 sigma.  Checked under SpecView, where results
\* and stats_data are the values the rendered row was styled from.
C10_ZScoreLabels ==
    \A t \in DOMAIN latency_styles :
        (/\ t \in DOMAIN stats_data
         /\ results[t].pong = "Yes"
         /\ results[t].time # None
         /\ stats_data[t].avg_latency # None
         /\ stats_data[t].std_dev > 0) =>
            LET d == Abs(10 * Get(results[t].time) - Get(stats_data[t].avg_latency))
                sigma == stats_data[t].std_dev
            IN  /\ d <= sigma <=> latency_styles[t] = "green"
                /\ (sigma < d /\ 2 * d <= 3 * sigma) <=> latency_styles[t] = "yellow"
                /\ (3 * sigma < 2 * d /\ d <= 2 * sigma) <=> latency_styles[t] = "red"
                /\ d > 2 * sigma <=> latency_styles[t] = "red bold"

\* C10 witness: a row whose z-score is exactly 1.0 was styled
C10_Witness ==
    \E t \in DOMAIN latency_styles :
        /\ t \in DOMAIN stats_data
        /\ results[t].pong = "Yes"
        /\ results[t].time # None
        /\ stats_data[t].avg_latency # None
        /\ stats_data[t].std_dev > 0
        /\ Abs(10 * Get(results[t].time) - Get(stats_data[t].avg_latency))
             = stats_data[t].std_dev

\* C11 (as claimed): in every state, the classification of a target whose
\* last outcome is Error is critical (red bold), whatever stats_data holds
\* for it, also when stats_data has no entry for the target.
C11_ErrorIsCritical ==
    \A t \in DOMAIN results :
        results[t].pong = "Error" =>
            latency_style(t, results[t], stats_data) = "red bold"

\* C12: when the snapshot entry of a target has window collecting and the
\* target's last outcome is not a failed probe (Yes, Waiting or DNS Error),
\* the row's classification is collecting (yellow dim).  Checked under
\* SpecView.
C12_CollectingLabel ==
    \A t \in DOMAIN latency_styles :
        (/\ t \in DOMAIN stats_data
         /\ stats_data[t].window_used = "collecting"
         /\ results[t].pong \in {"Yes", "Waiting", "DNS Error"}) =>
            latency_styles[t] = "yellow dim"

\* C12 witness: a row whose name did not resolve was styled while its
\* snapshot entry is collecting
C12_Witness ==
    /\ 2 \in DOMAIN latency_styles
    /\ 2 \in DOMAIN stats_data
    /\ stats_data[2].window_used = "collecting"
    /\ results[2].pong = "DNS Error"
    /\ 1 \in DOMAIN latency_styles
    /\ stats_data[1].window_used = "collecting"
    /\ results[1].pong = "Yes"

\* C13 (as claimed): when the last probe succeeded and the snapshot entry has
\* std_dev = 0 or window 5min or 15min, the classification is neutral (dim).
C13_NeutralAsClaimed ==
    \A t \in DOMAIN latency_styles :
        (/\ t \in DOMAIN stats_data
         /\ results[t].pong = "Yes"
         /\ \/ stats_data[t].std_dev = 0
            \/ stats_data[t].window_used \in {"5min", "15min"}) =>
            latency_styles[t] = "dim"

\* C13 (amended): when the last probe succeeded and the snapshot entry has a
\* window other than collecting, with std_dev = 0 or window 5min or 15min,
\* the classification is neutral (dim); a collecting entry, whose std_dev is
\* 0 too, is classified collecting instead (C12).
C13_NeutralUnlessCollecting ==
    \A t \in DOMAIN latency_styles :
        (/\ t \in DOMAIN stats_data
         /\ results[t].pong = "Yes"
         /\ stats_data[t].window_used # "collecting"
         /\ \/ stats_data[t].std_dev = 0
            \/ stats_data[t].window_used \in {"5min", "15min"}) =>
            latency_styles[t] = "dim"

\* C13 witness: a successful row was styled against a 1min entry whose
\* std_dev is 0 and whose mean differs from the row's latency
C13_Witness ==
    \E t \in DOMAIN latency_styles :
        /\ t \in DOMAIN stats_data
        /\ results[t].pong = "Yes"
        /\ results[t].time # None
        /\ stats_data[t].window_used = "1min"
        /\ stats_data[t].std_dev = 0
        /\ stats_data[t].avg_latency # None
        /\ 10 * Get(results[t].time) # Get(stats_data[t].avg_latency)

\* rows of target_id that a step adds to ping_results
appended(target_id) ==
    {r \in ping_results' : r.target_id = target_id} \ ping_results

\* the step in which save_ping_result of prober i returns
save_returns(i) == pc[i] = "insert" /\ pc'[i] = "publish"

\* the step in which prober i assigns results[target_id] (lines 401, 414)
publishes(i) == pc[i] = "publish" /\ pc'[i] = "ping"

\* what the iteration of prober i does around the save: rows of the target
\* are added by no step but the return of save_ping_result; the outcome is
\* replaced by no step but the publish, which follows that return; the
\* published outcome is Yes with a plain timestamp after exit code 0 and
\* Error with a "fail:" timestamp otherwise
iteration_order(i) ==
    LET t == addresses[i].id
    IN  /\ ~save_returns(i) => appended(t) = {}
        /\ pc'[i] = "publish" /\ pc[i] # "publish" => pc[i] = "insert"
        /\ results'[t] # results[t] => publishes(i) \/ pc[i] = "start"
        /\ publishes(i) =>
              /\ results'[t].pong =
                    IF Get(local[i].returncode) = 0 THEN "Yes" ELSE "Error"
              /\ results'[t].timestamp =
                    IF Get(local[i].returncode) = 0 THEN "" ELSE "fail:"

\* the one row a returning save_ping_result has added
one_row_appended(i) ==
    /\ Cardinality(appended(addresses[i].id)) = 1
    /\ \A r \in appended(addresses[i].id) :
          /\ r.success = (Get(local[i].returncode) = 0)
          /\ r.timestamp = now

\* C14 (as claimed): every completed probe appends exactly one row for the
\* target with success = (exit code is zero), then replaces the outcome by
\* Yes with a plain timestamp or by Error with a "fail:" timestamp; the
\* append precedes the publish.
C14_OneRowPerProbeAsClaimed ==
    [][main_pc = "live" =>
          \A i \in Probers :
              /\ iteration_order(i)
              /\ save_returns(i) => one_row_appended(i)]_vars

\* C14 (amended): as above, except that a probe whose store write fails
\* appends no row; its outcome is published all the same.
C14_OneRowPerProbeUnlessWriteFails ==
    [][main_pc = "live" =>
          \A i \in Probers :
              /\ iteration_order(i)
              /\ save_returns(i) =>
                    one_row_appended(i) \/ ping_results' = ping_results]_vars

\* C14 witness: a probe with a non-zero exit code has appended its failure
\* row and then published Error
C14_Witness ==
    \E i \in DOMAIN pc :
        /\ pc[i] = "ping"
        /\ results[addresses[i].id].pong = "Error"
        /\ results[addresses[i].id].timestamp = "fail:"
        /\ \E r \in ping_results :
              r.target_id = addresses[i].id /\ ~r.success /\ r.timestamp >= StartTime

\* C15 (as claimed): whatever the stdout of a zero-exit run, parsing does not
\* fail and the prober goes on: no prober is ended by an exception leaving
\* parse_ping_output.
C15_ParsingNeverFails ==
    \A i \in DOMAIN pc : pc[i] # "dead"

\* the name of prober i's target did not resolve
dns_failed(i) ==
    /\ ~is_ipv4(addresses[i].addr)
    /\ results[addresses[i].id].pong = "DNS Error"

\* rows of target_id appended since the process started
rows_since_start(target_id) ==
    {r \in ping_results : r.target_id = target_id /\ r.timestamp >= StartTime}

\* C16: when the name of a host-name target does not resolve at the start
\* of its prober, the outcome becomes DNS Error with a "dns_fail:"
\* timestamp and stays so for ever: the prober has returned, so it never
\* resolves again, never runs the echo utility and never appends a row.
C16_DnsErrorIsFinal ==
    /\ [](main_pc = "live" =>
            \A i \in Probers :
                /\ dns_failed(i) =>
                      /\ pc[i] = "done"
                      /\ results[addresses[i].id].timestamp = "dns_fail:"
                      /\ results[addresses[i].id].resolved_ip = None
                      /\ rows_since_start(addresses[i].id) = {}
                /\ (pc[i] = "done" /\ ~is_ipv4(addresses[i].addr) /\ ping_installed)
                      => dns_failed(i))
    /\ [][main_pc = "live" =>
            \A i \in Probers :
                dns_failed(i) =>
                    /\ results'[addresses[i].id] = results[addresses[i].id]
                    /\ pc'[i] = "done"
                    /\ local'[i] = local[i]]_vars

\* C16 witness: the name did not resolve, and later the clock has advanced
\* and the other prober has used up its runs
C16_Witness ==
    /\ main_pc = "live"
    /\ \E i \in Probers : dns_failed(i) /\ pc[i] = "done"
    /\ now > StartTime
    /\ probes = MaxProbes

\* the step in which prober i is ended by FileNotFoundError
ends_without_ping(i) == pc[i] = "ping" /\ pc'[i] = "done"

\* C17: without the echo utility a prober that reaches its probe step ends
\* without appending a row or changing its outcome, and nothing else is
\* affected: the other probers and the statistics thread stay where they
\* are and can go on, and the process stays alive.
C17_MissingPingEndsOnlyTheProber ==
    /\ [][main_pc = "live" =>
            \A i \in Probers :
                ends_without_ping(i) =>
                    /\ ~ping_installed
                    /\ ping_results' = ping_results
                    /\ sqlite_sequence' = sqlite_sequence
                    /\ results' = results
                    /\ stats_data' = stats_data
                    /\ stats_pc' = stats_pc
                    /\ db_lock' = db_lock
                    /\ main_pc' = "live"
                    /\ \A j \in Probers \ {i} : pc'[j] = pc[j]]_vars
    /\ [](main_pc = "live" /\ ~ping_installed =>
            /\ \A i \in Probers : rows_since_start(addresses[i].id) = {}
            /\ \A i \in Probers :
                  is_ipv4(addresses[i].addr) =>
                      results[addresses[i].id].pong = "Waiting"
            /\ \A i \in Probers : pc[i] = "start" => ENABLED ping_address_resolve(i)
            /\ (stats_pc = "wait" /\ db_lock = None)
                  => ENABLED calculate_statistics_acquire
            /\ stats_pc = "pass" => ENABLED calculate_statistics_commit)

\* C17 witness: a prober has ended for want of the echo utility, its outcome
\* is still Waiting, and the statistics thread has committed a pass at a
\* later instant
C17_Witness ==
    /\ main_pc = "live"
    /\ ~ping_installed
    /\ \E i \in Probers :
          /\ is_ipv4(addresses[i].addr)
          /\ pc[i] = "done"
          /\ results[addresses[i].id].pong = "Waiting"
    /\ now > StartTime
    /\ \E s \in ping_stats : s.last_updated = now

\* the step in which prober i leaves the write of save_ping_result without
\* having added a row
write_fails(i) ==
    pc[i] = "insert" /\ pc'[i] # "insert" /\ appended(addresses[i].id) = {}

\* C18: a failed append is swallowed inside save_ping_result: the lock is
\* released, no row is added, nothing else changes, and the prober goes on
\* to publish the outcome of that probe and to its next iteration.
C18_WriteFailureIsSwallowed ==
    /\ [][main_pc = "live" =>
            \A i \in Probers :
                /\ write_fails(i) =>
                      /\ pc'[i] = "publish"
                      /\ db_lock = Some(Holder("prober", i))
                      /\ db_lock' = None
                      /\ ping_results' = ping_results
                      /\ sqlite_sequence' = sqlite_sequence
                      /\ local'[i] = local[i]
                      /\ results' = results
                      /\ stats_data' = stats_data
                      /\ stats_pc' = stats_pc
                      /\ main_pc' = "live"
                      /\ \A j \in Probers \ {i} : pc'[j] = pc[j]
                /\ (pc[i] = "publish" /\ pc'[i] # "publish") =>
                      /\ pc'[i] = "ping"
                      /\ results'[addresses[i].id] = Get(local[i].publish)]_vars
    /\ [](main_pc = "live" =>
            \A i \in Probers :
                pc[i] = "publish" => ENABLED ping_address_publish(i))

\* C18 witness: the first probe's outcome was published although its write
\* added no row, and the prober is in its second iteration
C18_Witness ==
    /\ main_pc = "live"
    /\ probes = 2
    /\ \E i \in Probers :
          /\ pc[i] = "save"
          /\ results[addresses[i].id].pong = "Yes"
          /\ rows_since_start(addresses[i].id) = {}
          /\ \A j \in Probers \ {i} : pc[j] = "done"
    /\ db_lock = None

\* the tasks that are inside a store write or a statistics pass
writers ==
    {Holder("prober", i) : i \in {j \in DOMAIN pc : pc[j] = "insert"}}
    \cup (IF stats_pc = "pass" THEN {Holder("stats", 0)} ELSE {})

\* C19: once the threads run, at most one task is inside a store write or a
\* statistics pass, and it is the holder of db_lock.
C19_WritesAreMutuallyExclusive ==
    main_pc = "live" =>
        /\ Cardinality(writers) <= 1
        /\ writers = db_lock

\* C19 witness: a prober waits to write while the statistics pass is running
C19_Witness ==
    /\ stats_pc = "pass"
    /\ \E i \in DOMAIN pc : pc[i] = "save"

\* the length in seconds of the window a snapshot entry names
window_of(window_used) ==
    CASE window_used = "1min" -> WINDOW_01MIN
      [] window_used = "5min" -> WINDOW_05MIN
      [] window_used = "15min" -> WINDOW_15MIN

\* C20: every row whose append returned before a pass started is seen by
\* the pass: the total the pass publishes for a target counts every row of
\* the target then in the store whose timestamp lies in the chosen window,
\* and a pass that publishes collecting has seen fewer rows than the
\* smallest threshold in the 1 minute window.
C20_PassSeesEarlierAppends ==
    [][pass_publishes =>
          \A t \in DOMAIN stats_data' :
              IF stats_data'[t].window_used = "collecting"
              THEN total_in(t, WINDOW_01MIN) < MIN_01MIN
              ELSE stats_data'[t].total_results
                      = total_in(t, window_of(stats_data'[t].window_used))]_vars

\* C20 witness: a pass has just published a total that counts rows appended
\* at the current instant, before the pass started
C20_Witness ==
    /\ \E s \in ping_stats : s.last_updated = now
    /\ \E t \in DOMAIN stats_data :
          /\ stats_data[t].window_used # "collecting"
          /\ stats_data[t].total_results
                = total_in(t, window_of(stats_data[t].window_used))
          /\ \E r \in rows_since_start(t) : r.timestamp = now

C22_StatsAreSwappedWhole ==
    /\ [](main_pc = "live" =>
            \/ stats_data = EmptyDict
            \/ DOMAIN stats_data = target_ids(addresses))
    /\ [][stats_data' # stats_data =>
            /\ stats_pc = "pass"
            /\ stats_data' =
                  compute_new_stats(ping_targets,
                                    retention_sweep(ping_results, now),
                                    addresses, now)]_vars

\* C22 witness: a pass has replaced a map of two entries by another one in
\* which the first target's entry has changed
C22_Witness ==
    /\ Cardinality(DOMAIN stats_data) = 2
    /\ stats_data[1].window_used = "1min"
    /\ stats_data[2].window_used = "collecting"

\* C23 (as claimed): between the view's read of a target's outcome and its
\* read of the target's statistics no publish takes effect: while a row is
\* being rendered, neither the target's outcome nor stats_data changes.
C23_PairIsReadTogether ==
    [][view_row # None =>
          /\ results'[Get(view_row).target_id] = results[Get(view_row).target_id]
          /\ stats_data' = stats_data]_vars

\* C24 (as claimed): once the interrupt has been raised, no prober starts a
\* further probe from the head of its loop.
C24_NoProbeAfterInterrupt ==
    [][interrupted /\ main_pc = "live" =>
          \A i \in Probers : ~(pc[i] = "ping" /\ pc'[i] # "ping")]_vars

\* C25: every target's outcome is Waiting when the threads are started; an
\* outcome that has left Waiting never returns to it; and the only states
\* an outcome ever has are Waiting, Yes, Error and DNS Error.
C25_OutcomeLifecycle ==
    /\ [](\A t \in DOMAIN results :
            results[t].pong \in {"Waiting", "Yes", "Error", "DNS Error"})
    /\ [][main_pc = "start" /\ main_pc' = "live" =>
            /\ DOMAIN results' = target_ids(addresses)
            /\ \A t \in DOMAIN results' :
                  /\ results'[t].pong = "Waiting"
                  /\ results'[t].timestamp = "-"]_vars
    /\ [][\A t \in DOMAIN results :
            results[t].pong # "Waiting" =>
                /\ t \in DOMAIN results'
                /\ results'[t].pong # "Waiting"]_vars

\* C25 witness: an outcome has gone from Waiting to Yes and on to Error
C25_Witness ==
    \E t \in DOMAIN results :
        /\ results[t].pong = "Error"
        /\ \E r \in rows_since_start(t) : r.success
        /\ \E r \in rows_since_start(t) : ~r.success

\* C26: with malformed JSON in the configuration file start-up ends with
\* exit code 1 before anything else happens: the database is as it was
\* found, no target is upserted, no outcome exists and no prober or
\* statistics thread is started.
C26_MalformedConfigStopsStartup ==
    /\ [](config_file.state = "malformed" =>
            /\ main_pc \in {"load", "exit_1"}
            /\ addresses = <<>>
            /\ ping_targets = OldDb.ping_targets
            /\ ping_results = OldDb.ping_results
            /\ sqlite_sequence = OldDb.sqlite_sequence
            /\ ping_stats = OldDb.ping_stats
            /\ db_lock = None
            /\ results = EmptyDict
            /\ stats_data = EmptyDict
            /\ pc = <<>>
            /\ stats_pc = "idle")
    /\ [][config_file.state = "malformed" /\ main_pc = "load" =>
            main_pc' = "exit_1"]_vars

\* C26 witness: the process has exited with code 1 on a malformed file
C26_Witness ==
    /\ config_file.state = "malformed"
    /\ main_pc = "exit_1"
    /\ ping_targets = OldTargets

\* C27 (as claimed): after the load the ids of the loaded targets are
\* pairwise different and every address is non-empty, so that once the
\* threads run there is one outcome slot and one ping_targets row per
\* loaded target; this for every file load_addresses accepts.
C27_TargetIdsAreUnique ==
    main_pc \notin {"load", "exit_1"} =>
        /\ \A i, j \in Probers : addresses[i].id = addresses[j].id => i = j
        /\ \A i \in Probers : addresses[i].addr # ""
        /\ main_pc = "live" =>
              /\ Cardinality(DOMAIN results) = Len(addresses)
              /\ Cardinality(ping_targets) = Len(addresses)

\* the window has enough results of the target for the selection rule
qualifies(target_id, window_used) ==
    CASE window_used = "1min" -> total_in(target_id, WINDOW_01MIN) >= MIN_01MIN
      [] window_used = "5min" -> total_in(target_id, WINDOW_05MIN) >= MIN_05MIN
      [] window_used = "15min" -> total_in(target_id, WINDOW_15MIN) >= MIN_15MIN

finer(window_used) ==
    CASE window_used = "1min" -> {}
      [] window_used = "5min" -> {"1min"}
      [] window_used = "15min" -> {"1min", "5min"}

coarser(window_used) == {"1min", "5min", "15min"} \ (finer(window_used) \cup {window_used})

\* the window a pass publishes is the extreme one, in the given order, of
\* those that qualify, and collecting when none qualifies
publishes_extreme(before(_)) ==
    pass_publishes =>
        \A t \in DOMAIN stats_data' :
            LET w == stats_data'[t].window_used
            IN  IF w = "collecting"
                THEN \A x \in {"1min", "5min", "15min"} : ~qualifies(t, x)
                ELSE qualifies(t, w) /\ \A x \in before(w) : ~qualifies(t, x)

\* C28 (as claimed): the chosen window is the finest window (1m before 5m
\* before 15m) that has enough samples.
C28_FinestWindowAsClaimed == [][publishes_extreme(finer)]_vars

\* C28 (amended): the chosen window is the coarsest window (15m before 5m
\* before 1m) that has enough samples, and collecting when none has.
C28_CoarsestQualifyingWindow == [][publishes_extreme(coarser)]_vars

\* C28 witness: a pass has published 15min for a target whose 1 minute and
\* 5 minute windows have enough samples too
C28_Witness ==
    \E t \in DOMAIN stats_data :
        /\ stats_data[t].window_used = "15min"
        /\ qualifies(t, "1min") /\ qualifies(t, "5min") /\ qualifies(t, "15min")
        /\ \E s \in ping_stats : s.target_id = t /\ s.last_updated = now
        /\ stats_data[t].total_results = total_in(t, WINDOW_15MIN)

\* C29 (as claimed): with 60 successful probes at about 20 ms recorded and a
\* pass run over them, the snapshot's std_dev is non-zero and below 3 ms, a
\* following 200 ms sample is classified critical and a nominal 20 ms
\* sample is classified normal.
C29_AnomalyScenario ==
    (/\ ping_results = SteadyHistory
     /\ 1 \in DOMAIN stats_data
     /\ 1 \in DOMAIN latency_styles
     /\ results[1].pong = "Yes") =>
        /\ stats_data[1].std_dev > 0
        /\ stats_data[1].std_dev < 300
        /\ results[1].time = Some(2000) => latency_styles[1] = "red bold"
        /\ results[1].time = Some(200) => latency_styles[1] = "green"

\* C30 (as claimed): under steady probing from an empty store the window a
\* pass publishes is 1min while the target has 2 to 6 results, and 15min is
\* not published before the run is 30 s old.
C30_UpgradeTimesAsClaimed ==
    \A t \in DOMAIN stats_data :
        /\ stats_data[t].total_results \in 2..6 => stats_data[t].window_used = "1min"
        /\ stats_data[t].window_used = "15min" => now - StartTime >= 30

\* the rows of the window a published entry names, at the present instant
chosen_rows(target_id, window_used) ==
    window_rows(ping_results, target_id, window_of(window_used), now)

\* C31 (as claimed): in every published entry whose window is 15min, 5min or
\* 1min, avg_latency, success_rate and total_results are the values of that
\* window's view for the target in the same pass, an average latency of
\* exactly 0 being published as 0 and not as absent.
C31_ChosenWindowValuesAsClaimed ==
    [][pass_publishes =>
          \A t \in DOMAIN stats_data' :
              stats_data'[t].window_used # "collecting" =>
                  LET w == chosen_rows(t, stats_data'[t].window_used)
                  IN  /\ stats_data'[t].avg_latency = sql_avg_latency(w)
                      /\ Some(stats_data'[t].success_rate) = sql_success_rate(w)
                      /\ stats_data'[t].total_results = Cardinality(w)]_vars

\* the rows of ping_stats for a target, in the state after the step
stats_rows_after(target_id) == {s \in ping_stats' : s.target_id = target_id}

\* C32 (as claimed): after every pass that commits, ping_stats holds exactly
\* one row per configured target, written by that pass (a later pass
\* replaces the row of an earlier one); the row carries the avg_latency,
\* success_rate and total of the window the pass chose for the target, and
\* these equal the values the same pass published in stats_data.
C32_PingStatsAsClaimed ==
    [][calculate_statistics_commit =>
          \A t \in target_ids(addresses) :
              /\ Cardinality(stats_rows_after(t)) = 1
              /\ \A s \in stats_rows_after(t) :
                    /\ s.last_updated = now
                    /\ s.avg_latency = stats_data'[t].avg_latency
                    /\ s.success_rate = stats_data'[t].success_rate
                    /\ s.total_results = stats_data'[t].total_results
                    /\ stats_data'[t].window_used # "collecting" =>
                          LET w == chosen_rows(t, stats_data'[t].window_used)
                          IN  /\ s.avg_latency = sql_avg_latency(w)
                              /\ Some(s.success_rate) = sql_success_rate(w)
                              /\ s.total_results = Cardinality(w)]_vars

\* C33: db_lock is held only while one append or one statistics pass is
\* executing.  No prober holds it outside the write of save_ping_result and
\* the statistics thread does not hold it outside a pass, so nobody holds
\* it while probing, publishing or sleeping; it is taken only when free;
\* and every step that ends a write or a pass, by a commit or by an error,
\* leaves it free, having added at most one result row.
C33_LockHeldOnlyWhileWriting ==
    /\ [](\A i \in DOMAIN pc :
             pc[i] # "insert" => db_lock # Some(Holder("prober", i)))
    /\ [](stats_pc # "pass" => db_lock # Some(Holder("stats", 0)))
    /\ [][/\ db_lock' # db_lock /\ db_lock' # None => db_lock = None
          /\ \A i \in DOMAIN pc :
                pc[i] = "insert" /\ pc'[i] # "insert" =>
                    /\ db_lock' = None
                    /\ Cardinality(ping_results' \ ping_results) <= 1
          /\ stats_pc = "pass" /\ stats_pc' # "pass" =>
                /\ db_lock' = None
                /\ ping_results' \subseteq ping_results]_vars

\* C33 witness: a pass raised after it had replaced stats_data (nothing was
\* written to ping_stats) and a prober's append raised too (its outcome is
\* published, no row of this execution exists); after both errors a prober
\* holds the lock again
C33_Witness ==
    /\ stats_pc = "wait"
    /\ stats_data # EmptyDict
    /\ ping_stats = {}
    /\ \E i, j \in DOMAIN pc :
          /\ results[addresses[i].id].pong = "Yes"
          /\ rows_since_start(addresses[i].id) = {}
          /\ db_lock = Some(Holder("prober", j))

\* C34: a stored result row is never updated and is deleted by nothing but
\* the retention sweep of a committing pass.  Every step keeps each row it
\* does not delete exactly as it was (no row of the next state shares the
\* id of an earlier row with other contents); the start-up upserts of
\* ping_targets, the appends of the probers and the ping_stats writes
\* delete nothing; and a row disappears only in the commit of a pass, and
\* only when it is older than the retention age.
C34_ResultRowsAreImmutable ==
    [][/\ \A r \in ping_results :
             \A r2 \in ping_results' : r2.id = r.id => r2 = r
       /\ \A r \in ping_results \ ping_results' :
             /\ stats_pc = "pass" /\ stats_pc' = "wait"
             /\ r.timestamp < now - RETENTION
       /\ (ping_targets' # ping_targets \/ sqlite_sequence' # sqlite_sequence)
             => ping_results \subseteq ping_results'
       /\ ping_stats' # ping_stats =>
             ping_results' = retention_sweep(ping_results, now)]_vars

\* C34 witness: on a store left by an earlier execution the targets were
\* upserted, a prober appended a row and a pass wrote ping_stats; the pass
\* deleted the expired row and every other old row is still there
C34_Witness ==
    /\ ping_targets # OldTargets
    /\ \E r \in ping_results : r.id > 11 /\ r.timestamp >= StartTime
    /\ \E s \in ping_stats : s.total_results > 0
    /\ ~(OldResults \subseteq ping_results)
    /\ retention_sweep(OldResults, StartTime) \subseteq ping_results

----------------------------------------------------------------------------
(* The statistics thread on stores of every shape around the thresholds *)

\* results of the target in the last minute
MaxRecent == 5

\* results of the target that are two minutes old
MaxMid == 5

\* results of the target that are ten minutes old
MaxOld == 10

\* Rows of ping_results written by earlier iterations of the prober: a
\* successes half a minute old, b successes two minutes old and c failures
\* ten minutes old
WindowHistory(a, b, c) ==
    {OkRow(i, 1, StartTime - WINDOW_01MIN \div 2, 190 + 5 * (i % 3)) : i \in 1..a}
    \cup {OkRow(a + i, 1, StartTime - 2 * WINDOW_01MIN, 200) : i \in 1..b}
    \cup {FailRow(a + b + i, 1, StartTime - 10 * WINDOW_01MIN) : i \in 1..c}

\* the threads have been started, the prober is between two iterations
InitWindows ==
    /\ config_file = ConfigFile("ok", OneTarget)
    /\ ping_installed = TRUE
    /\ main_pc = "live"
    /\ addresses = OneTarget
    /\ ping_targets = sync_targets_to_database({}, OneTarget, StartTime)
    /\ \E a \in 0..MaxRecent, b \in 0..MaxMid, c \in 0..MaxOld :
          /\ ping_results = WindowHistory(a, b, c)
          /\ sqlite_sequence = a + b + c
    /\ ping_stats = {}
    /\ db_lock = None
    /\ now = StartTime
    /\ results = initial_results(EmptyDict, OneTarget)
    /\ stats_data = EmptyDict
    /\ pc = <<"ping">>
    /\ local = <<NoLocal>>
    /\ stats_pc = "wait"
    /\ probes = 0
    /\ view_row = None
    /\ latency_styles = EmptyDict
    /\ interrupted = FALSE
    /\ DockerNotRunning

NextWindows ==
    \/ tick
    \/ calculate_statistics_acquire
    \/ calculate_statistics_commit
    \/ calculate_statistics_fail_early
    \/ calculate_statistics_fail_late

SpecWindows == InitWindows /\ [][NextWindows]_vars

\* total_results of the three views' rows for a target, at the present instant
view_total_01min(t) ==
    Get(v_stats_01min(ping_targets, ping_results, t, now)).total_results

view_total_05min(t) ==
    Get(v_stats_05min(ping_targets, ping_results, t, now)).total_results

view_total_15min(t) ==
    Get(v_stats_15min(ping_targets, ping_results, t, now)).total_results

\* C35: the three windows are nested: for every target the views' totals
\* satisfy total(1m) <= total(5m) <= total(15m) at every instant, so in
\* every pass.  Hence a pass publishes the 1 minute window only for a
\* target with 2 <= total(1m) <= 4 and total(15m) <= 9, and it publishes a
\* non-zero std_dev only with the 1 minute window, that is only for a
\* target with at most 9 results in the last 15 minutes.
C35_WindowsAreNested ==
    /\ [](main_pc = "live" =>
             \A t \in target_ids(addresses) :
                 /\ view_total_01min(t) <= view_total_05min(t)
                 /\ view_total_05min(t) <= view_total_15min(t))
    /\ [][pass_publishes =>
             \A t \in DOMAIN stats_data' :
                 /\ stats_data'[t].window_used = "1min" =>
                       /\ view_total_01min(t) >= 2
                       /\ view_total_01min(t) <= 4
                       /\ view_total_15min(t) <= 9
                 /\ stats_data'[t].std_dev # 0 =>
                       /\ stats_data'[t].window_used = "1min"
                       /\ view_total_15min(t) <= 9]_vars

\* C35 witness: a pass has just published the 1 minute window with a
\* non-zero std_dev for a target whose windows are strictly nested, with 9
\* results in the last 15 minutes
C35_Witness ==
    /\ \E s \in ping_stats : s.last_updated = now
    /\ \E t \in DOMAIN stats_data :
          /\ stats_data[t].window_used = "1min"
          /\ stats_data[t].std_dev > 0
          /\ view_total_01min(t) < view_total_05min(t)
          /\ view_total_05min(t) < view_total_15min(t)
          /\ view_total_15min(t) = 9

\* C36: a pass replaces stats_data before it writes ping_stats and before
\* it commits.  A step that ends a pass has one of three outcomes: the pass
\* committed (statistics replaced, expired rows deleted, ping_stats
\* written); it failed after the swap (statistics replaced by the ones the
\* pass computed, while its retention deletion and its ping_stats rows are
\* rolled back); or it failed before the swap (statistics, results and
\* ping_stats all as before the pass).  So the store never changes in a
\* pass whose statistics were not published.
C36_SwapPrecedesCommit ==
    [][stats_pc = "pass" /\ stats_pc' # "pass" =>
          \/ /\ stats_data' = pass_new_stats
             /\ ping_results' = retention_sweep(ping_results, now)
             /\ ping_stats' = persist_stats(ping_stats, pass_new_stats, now)
          \/ /\ stats_data' = pass_new_stats
             /\ ping_results' = ping_results
             /\ ping_stats' = ping_stats
          \/ /\ stats_data' = stats_data
             /\ ping_results' = ping_results
             /\ ping_stats' = ping_stats]_vars

\* C36 witness: a pass on a store left by an earlier execution failed after
\* the swap: the statistics it computed are published, the result past the
\* retention age is still stored and ping_stats still holds the rows of the
\* earlier execution
C36_Witness ==
    /\ stats_pc = "wait"
    /\ stats_data # EmptyDict
    /\ \E t \in DOMAIN stats_data : stats_data[t].total_results > 0
    /\ \E r \in ping_results : r.timestamp < now - RETENTION
    /\ ping_stats # {}
    /\ \A s \in ping_stats : s.total_results = 0

----------------------------------------------------------------------------
(* The threads under a fair scheduler *)

\* a pass in progress runs to its end, by the commit or by an exception
pass_ends ==
    \/ calculate_statistics_fail_early
    \/ calculate_statistics_fail_late
    \/ calculate_statistics_commit

\* the write of save_ping_result in progress runs to its end
write_ends(i) ==
    i \in Probers /\ (save_ping_result_error(i) \/ save_ping_result_commit(i))

\* prober i, blocked in `with db_lock`, takes the lock
lock_granted(i) == i \in Probers /\ save_ping_result_acquire(i)

\* A thread that can run does run (weak fairness on the steps inside a
\* write or a pass); a thread blocked on db_lock gets the lock if it is
\* free again and again (strong fairness): every holder sleeps after it has
\* released the lock (lines 423, 571, 576), which leaves the lock to the
\* waiting threads.
Fairness ==
    /\ WF_vars(pass_ends)
    /\ SF_vars(calculate_statistics_acquire)
    /\ \A i \in 1..Len(TwoTargets) :
          WF_vars(write_ends(i)) /\ SF_vars(lock_granted(i))

\* the threads have just been started on a fresh store
InitFair ==
    /\ config_file = ConfigFile("ok", TwoTargets)
    /\ ping_installed = TRUE
    /\ main_pc = "live"
    /\ addresses = TwoTargets
    /\ ping_targets = sync_targets_to_database({}, TwoTargets, StartTime)
    /\ ping_results = {}
    /\ sqlite_sequence = 0
    /\ ping_stats = {}
    /\ db_lock = None
    /\ now = StartTime
    /\ results = initial_results(EmptyDict, TwoTargets)
    /\ stats_data = EmptyDict
    /\ pc = <<"start", "start">>
    /\ local = <<NoLocal, NoLocal>>
    /\ stats_pc = "wait"
    /\ probes = 0
    /\ view_row = None
    /\ latency_styles = EmptyDict
    /\ interrupted = FALSE
    /\ DockerNotRunning

NextFair ==
    \/ \E i \in Probers : ping_address_resolve(i)
    \/ \E i \in Probers : ping_address_probe(i)
    \/ \E i \in Probers : save_ping_result_acquire(i)
    \/ \E i \in Probers : save_ping_result_commit(i)
    \/ \E i \in Probers : save_ping_result_error(i)
    \/ \E i \in Probers : ping_address_publish(i)
    \/ calculate_statistics_acquire
    \/ calculate_statistics_commit
    \/ calculate_statistics_fail_early
    \/ calculate_statistics_fail_late

SpecFair == InitFair /\ [][NextFair]_vars /\ Fairness

\* C37: the statistics thread does not end because a pass failed: every
\* step that ends a pass, committed or failed, leaves the thread waiting
\* for its next pass with db_lock released, and passes occur again and
\* again forever.  A prober leaves its wait for db_lock only by taking the
\* lock, and no prober waits forever: every prober that waits for the lock
\* eventually holds it.  The lock is taken only when it is free.
C37_PassesAndWritesKeepGoing ==
    /\ [][stats_pc = "pass" /\ stats_pc' # "pass" =>
             stats_pc' = "wait" /\ db_lock' = None]_vars
    /\ [][db_lock' # None /\ db_lock' # db_lock => db_lock = None]_vars
    /\ [][\A i \in DOMAIN pc :
             pc[i] = "save" /\ pc'[i] # "save" =>
                 pc'[i] = "insert" /\ db_lock' = Some(Holder("prober", i))]_vars
    /\ []<>(stats_pc = "pass")
    /\ []<>(stats_pc = "wait" /\ db_lock # Some(Holder("stats", 0)))
    /\ \A i \in 1..Len(TwoTargets) : []<>(pc[i] # "save")

\* C37 witness: after a pass that failed (its statistics are published,
\* nothing was written to ping_stats) the next pass is running while a
\* prober waits for the lock
C37_Witness ==
    /\ stats_pc = "pass"
    /\ db_lock = Some(Holder("stats", 0))
    /\ stats_data # EmptyDict
    /\ ping_stats = {}
    /\ \E i \in DOMAIN pc : pc[i] = "save"

\* C38: once the threads run, the keys of `results` are the configured
\* target ids and no step adds or removes a key, whatever the probers
\* publish; stats_data is empty until a pass publishes, every publishing
\* pass leaves it with exactly the configured target ids as keys, and it
\* never has any other key set.
C38_KeySetsAreFixed ==
    /\ [](main_pc = "live" => DOMAIN results = target_ids(addresses))
    /\ [][main_pc = "live" => DOMAIN results' = DOMAIN results]_vars
    /\ [](DOMAIN stats_data = {} \/ DOMAIN stats_data = target_ids(addresses))
    /\ [][/\ pass_publishes => DOMAIN stats_data' = target_ids(addresses)
          /\ DOMAIN stats_data' # DOMAIN stats_data =>
                DOMAIN stats_data = {} /\ pass_publishes]_vars

\* C38 witness: every one of two targets has had its outcome replaced by
\* its prober and a pass has published; both maps have the two target ids
\* as keys
C38_Witness ==
    /\ main_pc = "live"
    /\ Cardinality(DOMAIN results) = 2
    /\ \A t \in DOMAIN results : results[t].pong # "Waiting"
    /\ DOMAIN stats_data = DOMAIN results
    /\ \E t \in DOMAIN stats_data : stats_data[t].total_results > 0

\* the probe in progress of prober i exited with code 0 and one of its
\* parsed fields is no integer literal (int() raises ValueError, line 395
\* or 396)
conversion_fails(i) ==
    /\ local[i].publish # None
    /\ local[i].returncode = Some(0)
    /\ LET o == Get(local[i].publish)
       IN  \/ o.ttl # None /\ python_int(Get(o.ttl)) = None
           \/ o.bytes # None /\ python_int(Get(o.bytes)) = None

\* the row save_ping_result(target_id, True) stores for prober i
bare_success_row(i) ==
    ResultRow(sqlite_sequence + 1, addresses[i].id, now, TRUE, None, None, None)

\* the outcome prober i publishes carries the parsed texts as they are
publishes_raw(i) ==
    publishes(i) =>
        /\ results'[addresses[i].id] = Get(local[i].publish)
        /\ results'[addresses[i].id].pong = "Yes"

\* C39 (as claimed): for a successful probe with a field that cannot be
\* converted, exactly one success row is stored, with latency, ttl and
\* bytes absent, and the outcome published is Yes with the parsed texts.
C39_FallbackRowAsClaimed ==
    [][\A i \in DOMAIN pc :
          conversion_fails(i) =>
              /\ pc[i] = "insert" /\ pc'[i] # "insert" =>
                    appended(addresses[i].id) = {bare_success_row(i)}
              /\ publishes_raw(i)]_vars

\* C39 (amended): for a successful probe with a field that cannot be
\* converted, save_ping_result is called once, with success true and no
\* latency, ttl or bytes, whatever the other fields were; unless that write
\* fails it stores exactly one row, a success with the three values
\* absent, and a failed write stores nothing; the outcome published is Yes
\* with the parsed texts.
C39_FallbackRowUnlessWriteFails ==
    [][\A i \in DOMAIN pc :
          conversion_fails(i) =>
              /\ local[i].save = Some(SaveArgs(TRUE, None, None, None))
              /\ pc[i] = "insert" /\ pc'[i] # "insert" =>
                    \/ appended(addresses[i].id) = {bare_success_row(i)}
                    \/ write_fails(i) /\ ping_results' = ping_results
              /\ pc[i] # "insert" => appended(addresses[i].id) = {}
              /\ publishes_raw(i)]_vars

\* C39 witness: the outcome of a probe with a non-integer ttl is published
\* with a latency while the row stored for the same probe, the target's
\* only row, is a success without latency, ttl and bytes
C39_Witness ==
    \E i \in DOMAIN pc :
        LET t == addresses[i].id
        IN  /\ pc[i] = "ping"
            /\ results[t].pong = "Yes"
            /\ results[t].time # None
            /\ results[t].ttl # None /\ python_int(Get(results[t].ttl)) = None
            /\ Cardinality(rows_since_start(t)) = 1
            /\ \A r \in rows_since_start(t) :
                  r.success /\ r.latency = None /\ r.ttl = None /\ r.bytes = None

----------------------------------------------------------------------------
(* docker.py: the interactive ports mode.  A step is one answer of the     *)
(* user (a menu entry, Esc, a key at a prompt) and the code that runs      *)
(* until the utility waits for the next one.                               *)

\* icmp_monitor.py is not part of a run of docker.py
monitor_vars ==
    <<config_file, ping_installed, main_pc, addresses, ping_targets,
      ping_results, sqlite_sequence, ping_stats, db_lock, now, results,
      stats_data, pc, local, stats_pc, probes, view_vars>>

\* A row of port_mappings (create_ports_table, lines 168-176)
PortMapping(host_port, container_id) ==
    [host_port |-> host_port, container_id |-> container_id]

\* The published ports of the containers of the model, sorted by host port
\* (line 179); a container with two published ports has two rows
PublishedPorts ==
    <<PortMapping(80, "web"), PortMapping(443, "web"), PortMapping(5432, "db")>>

Containers == {PublishedPorts[k].container_id : k \in 1..Len(PublishedPorts)}

\* the rows of one sequence that satisfy a test, in order
RECURSIVE rows_of(_, _)
rows_of(mappings, ps) ==
    IF mappings = <<>> THEN <<>>
    ELSE IF Head(mappings).container_id \in ps
         THEN <<Head(mappings)>> \o rows_of(Tail(mappings), ps)
         ELSE rows_of(Tail(mappings), ps)

\* create_ports_table: the rows of the containers `docker ps` lists
port_mappings(ps) == rows_of(PublishedPorts, ps)

\* The head of the loop of ports_interactive_mode (lines 439-470): without
\* port mappings the function returns and main ends, else the menu is shown
ports_loop_head(ps) ==
    IF port_mappings(ps) = <<>> THEN "exit_0" ELSE "ports"

\* the action entries of container_menu (lines 503-508), by index
ACTION_DETAILS == 0

ACTION_LOGS == 1

ACTION_STOP == 2

ACTION_BACK == 3

\* the entries of the confirmation menu (line 333), by index
CONFIRM_YES == 0

CONFIRM_CANCEL == 1

\* main with the command "ports" (lines 607-628)
docker_main ==
    /\ docker_pc = "start"
    /\ \E docker_ok \in BOOLEAN :
          docker_pc' = IF docker_ok THEN ports_loop_head(docker_ps) ELSE "exit_1"
    /\ UNCHANGED <<monitor_vars, docker_ps, container_info, menu_entry_index,
                   caught, stopped, stop_commands, menu_exit>>

\* ports_interactive_mode, lines 470-490: the answer to the container list
ports_interactive_mode ==
    /\ docker_pc = "ports"
    /\ LET pm == port_mappings(docker_ps)
       IN  \/ \E n \in 0..Len(pm) :
                /\ menu_entry_index' = Some(n)
                /\ caught' = ""
                /\ IF n = Len(pm)              \* "Voltar ao menu principal"
                   THEN docker_pc' = "exit_0" /\ UNCHANGED container_info
                   ELSE /\ container_info' = Some(pm[n + 1])
                        /\ docker_pc' = "actions"
           \/ /\ menu_entry_index' = None       \* Esc or Ctrl+C in the menu
              /\ caught' = ""
              /\ docker_pc' = "exit_0"
              /\ UNCHANGED container_info
           \/ /\ caught' = "Exception"          \* the menu raises
              /\ docker_pc' = "exit_0"
              /\ UNCHANGED <<menu_entry_index, container_info>>
    /\ UNCHANGED <<monitor_vars, docker_ps, stopped, stop_commands, menu_exit>>

\* container_menu, lines 499-547: the answer to the action menu
container_menu ==
    /\ docker_pc = "actions"
    /\ \/ /\ menu_entry_index' = None           \* Esc or Ctrl+C: break
          /\ caught' = ""
          /\ menu_exit' = "cancel"
          /\ docker_pc' = ports_loop_head(docker_ps)
       \/ /\ menu_entry_index' = Some(ACTION_BACK)
          /\ caught' = ""
          /\ menu_exit' = "back"
          /\ docker_pc' = ports_loop_head(docker_ps)
       \/ /\ menu_entry_index' = Some(ACTION_DETAILS)
          /\ caught' = ""
          /\ \E details \in BOOLEAN :           \* get_container_details or None
                docker_pc' = IF details THEN "details" ELSE "actions"
          /\ UNCHANGED menu_exit
       \/ /\ menu_entry_index' = Some(ACTION_LOGS)
          /\ caught' = ""
          /\ docker_pc' = "logs"
          /\ UNCHANGED menu_exit
       \/ /\ menu_entry_index' = Some(ACTION_STOP)
          /\ caught' = ""
          /\ docker_pc' = "confirm"
          /\ UNCHANGED menu_exit
       \/ /\ caught' = "Exception"              \* the menu raises (line 546)
          /\ menu_exit' = "error"
          /\ docker_pc' = ports_loop_head(docker_ps)
          /\ UNCHANGED menu_entry_index
    /\ UNCHANGED <<monitor_vars, docker_ps, container_info, stopped,
                   stop_commands>>

\* show_container_details_full at input() (line 569), called at line 530
show_container_details_full ==
    /\ docker_pc = "details"
    /\ \/ /\ caught' = ""                       \* Enter
          /\ docker_pc' = "actions"
          /\ UNCHANGED menu_exit
       \/ /\ caught' = "EOFError"               \* end of input: line 546
          /\ menu_exit' = "error"
          /\ docker_pc' = ports_loop_head(docker_ps)
       \/ /\ caught' = "KeyboardInterrupt"      \* Ctrl+C: line 544
          /\ menu_exit' = "interrupt"
          /\ docker_pc' = ports_loop_head(docker_ps)
    /\ UNCHANGED <<monitor_vars, docker_ps, container_info, menu_entry_index,
                   stopped, stop_commands>>

\* show_container_logs, lines 315-326: the log stream ends or Ctrl+C is
\* caught inside the function
show_container_logs ==
    /\ docker_pc = "logs"
    /\ \E key \in {"", "KeyboardInterrupt"} : caught' = key
    /\ docker_pc' = "actions"
    /\ UNCHANGED <<monitor_vars, docker_ps, container_info, menu_entry_index,
                   stopped, stop_commands, menu_exit>>

\* Mutant: the entry "Cancelar" stops the container like the first entry
stop_container_interactive_cancel_stops ==
    /\ docker_pc = "confirm"
    /\ \/ /\ menu_entry_index' = None
          /\ caught' = ""
          /\ stopped' = Some(FALSE)
          /\ docker_pc' = "actions"
          /\ UNCHANGED <<docker_ps, stop_commands, menu_exit>>
       \/ /\ caught' = "Exception"
          /\ stopped' = Some(FALSE)
          /\ docker_pc' = "actions"
          /\ UNCHANGED <<menu_entry_index, docker_ps, stop_commands, menu_exit>>
       \/ /\ menu_entry_index' \in {Some(CONFIRM_YES), Some(CONFIRM_CANCEL)}
          /\ caught' = ""
          /\ stop_commands' = stop_commands \cup {Get(container_info).container_id}
          /\ docker_ps' = docker_ps \ {Get(container_info).container_id}
          /\ stopped' = Some(TRUE)
          /\ menu_exit' = "stopped"
          /\ docker_pc' = ports_loop_head(docker_ps')
    /\ UNCHANGED <<monitor_vars, container_info>>

\* stop_container_interactive, lines 329-361, and lines 536-539 of its
\* caller: the answer to the confirmation menu
stop_container_interactive ==
    /\ docker_pc = "confirm"
    /\ \/ /\ menu_entry_index' \in {None, Some(CONFIRM_CANCEL)}
          /\ caught' = ""
          /\ stopped' = Some(FALSE)
          /\ docker_pc' = "actions"
          /\ UNCHANGED <<docker_ps, stop_commands, menu_exit>>
       \/ /\ caught' = "Exception"              \* the menu raises (line 359)
          /\ stopped' = Some(FALSE)
          /\ docker_pc' = "actions"
          /\ UNCHANGED <<menu_entry_index, docker_ps, stop_commands, menu_exit>>
       \/ /\ menu_entry_index' = Some(CONFIRM_YES)
          /\ caught' = ""
          /\ stop_commands' = stop_commands \cup {Get(container_info).container_id}
          /\ \E outcome \in {"stopped", "no_effect", "docker_error"} :
                \* run_command("docker stop ..."), lines 20-39
                IF outcome = "docker_error"     \* stderr: sys.exit(1), line 35
                THEN /\ docker_pc' = "exit_1"
                     /\ UNCHANGED <<docker_ps, stopped, menu_exit>>
                ELSE /\ docker_ps' =
                           IF outcome = "stopped"
                           THEN docker_ps \ {Get(container_info).container_id}
                           ELSE docker_ps
                     /\ stopped' = Some(TRUE)
                     /\ menu_exit' = "stopped"
                     /\ docker_pc' = ports_loop_head(docker_ps')
    /\ UNCHANGED <<monitor_vars, container_info>>

\* docker.py is started with the command "ports"; `docker ps` lists any of
\* the containers
InitDocker ==
    /\ config_file = ConfigFile("ok", OneTarget)
    /\ ping_installed = TRUE
    /\ main_pc = "load"
    /\ addresses = <<>>
    /\ ping_targets = {}
    /\ ping_results = {}
    /\ sqlite_sequence = 0
    /\ ping_stats = {}
    /\ db_lock = None
    /\ now = StartTime
    /\ results = EmptyDict
    /\ stats_data = EmptyDict
    /\ pc = <<>>
    /\ local = <<>>
    /\ stats_pc = "idle"
    /\ probes = 0
    /\ view_row = None
    /\ latency_styles = EmptyDict
    /\ interrupted = FALSE
    /\ docker_pc = "start"
    /\ docker_ps \in SUBSET Containers
    /\ container_info = None
    /\ menu_entry_index = None
    /\ caught = ""
    /\ stopped = None
    /\ stop_commands = {}
    /\ menu_exit = ""

NextDocker ==
    \/ docker_main
    \/ ports_interactive_mode
    \/ container_menu
    \/ show_container_details_full
    \/ show_container_logs
    \/ stop_container_interactive

SpecDocker == InitDocker /\ [][NextDocker]_vars

\* the utility is inside container_menu or a function it called
in_container_menu(p) == p \in {"actions", "details", "logs", "confirm"}

\* a step in which container_menu returns to the loop of
\* ports_interactive_mode (which shows the list again, or returns when no
\* port mapping is left)
returns_to_port_list ==
    in_container_menu(docker_pc) /\ docker_pc' \in {"ports", "exit_0"}

\* a step that answers the confirmation menu with the given entries, or by
\* leaving the menu when None is among them
confirm_answer(entries) ==
    docker_pc = "confirm" /\ caught' = "" /\ menu_entry_index' \in entries

\* `docker stop` is run only in a step that answers the confirmation menu
\* with its first entry, and for the container of the menu; leaving the
\* confirmation menu or choosing "Cancelar" runs no stop command, stops
\* nothing and returns False
stop_only_when_confirmed ==
    /\ stop_commands' # stop_commands =>
          /\ confirm_answer({Some(CONFIRM_YES)})
          /\ stop_commands' =
                stop_commands \cup {Get(container_info).container_id}
    /\ docker_ps' # docker_ps =>
          /\ confirm_answer({Some(CONFIRM_YES)})
          /\ docker_ps' = docker_ps \ {Get(container_info).container_id}
    /\ confirm_answer({None, Some(CONFIRM_CANCEL)}) =>
          /\ stop_commands' = stop_commands
          /\ docker_ps' = docker_ps
          /\ stopped' = Some(FALSE)
          /\ docker_pc' = "actions"

\* container_menu returns after a confirmed stop, or after "Voltar", Esc or
\* Ctrl+C
returns_by_choice ==
    \/ confirm_answer({Some(CONFIRM_YES)}) /\ stopped' = Some(TRUE)
    \/ /\ docker_pc = "actions"
       /\ caught' = ""
       /\ menu_entry_index' \in {None, Some(ACTION_BACK)}
    \/ docker_pc = "details" /\ caught' = "KeyboardInterrupt"

\* C40 (as claimed): a container is stopped only after the confirm entry of
\* the confirmation menu is selected; leaving that menu or selecting its
\* cancel entry runs no stop command and returns False; and container_menu
\* returns to the port list loop only after a confirmed stop or an explicit
\* back or cancel.
C40_StopNeedsConfirmAsClaimed ==
    [][/\ stop_only_when_confirmed
       /\ returns_to_port_list => returns_by_choice]_vars

\* C40 (amended): as claimed, except that container_menu also returns to
\* the port list loop when an exception is caught inside it: the action
\* menu itself raises, or the input of the details prompt ends.
C40_StopNeedsConfirmOrMenuFails ==
    [][/\ stop_only_when_confirmed
       /\ returns_to_port_list =>
             \/ returns_by_choice
             \/ /\ docker_pc \in {"actions", "details"}
                /\ caught' \in {"Exception", "EOFError"}
                /\ menu_exit' = "error"
                /\ stop_commands' = stop_commands]_vars

\* C40 witness: the user has confirmed the stop of a container; exactly one
\* stop command was run, for the container of the menu, that container is
\* gone, and the utility is back at the port list with the other container
\* still listed
C40_Witness ==
    /\ docker_pc = "ports"
    /\ menu_exit = "stopped"
    /\ stopped = Some(TRUE)
    /\ menu_entry_index = Some(CONFIRM_YES)
    /\ Cardinality(stop_commands) = 1
    /\ container_info # None
    /\ stop_commands = {Get(container_info).container_id}
    /\ docker_ps = Containers \ stop_commands

====
